---- MODULE Spec2Model ----
(***************************************************************************)
(* BountyPing ingestion pipeline: the Program model (db/models.py), the    *)
(* SQLite catalog (db/database.py), the scraper engine (scrapers/base.py)  *)
(* the scheduler (scheduler.py) and the two adapters (scrapers/).          *)
(*                                                                         *)
(* Specifications: SpecDb (upserts one after the other), Spec and SpecLive *)
(* (runs of one scraper), SpecSched (run_scraper on two threads),          *)
(* SpecNotify (the same with or without a webhook URL), SpecLoop (the      *)
(* background loop, stop and main), SpecConc (two interleaved upserts),    *)
(* SpecParse (_parse_program of both adapters), SpecAdapter (a run with    *)
(* the adapters' paging and parsing), SpecPaging (the HackerOne paging     *)
(* loop under fair scheduling), SpecStarts (start_background_loop and stop  *)
(* called in any order), SpecIdentity (constructions of Program).          *)
(*                                                                         *)
(* Strings that the code transforms (platform, slug, asset names, JSON     *)
(* text) are sequences of one-character strings; strings the code only     *)
(* copies and compares (name, url, currency) are TLA+ strings.             *)
(* Optional[int] is a sequence of length 0 (None) or 1.                    *)
(* A datetime is the clock reading it was taken at; isoformat() keeps      *)
(* order and equality of readings, so a stored timestamp is the reading.   *)
(***************************************************************************)
EXTENDS Integers, Sequences, FiniteSets, TLC

VARIABLES
    programs,      \* table programs: a set of rows
    scrape_logs,   \* table scrape_logs: a sequence of rows (AUTOINCREMENT id = index)
    clock,         \* the last reading of datetime.utcnow()
    call,          \* frame of the last upsert_program call (its arguments, locals, result)
    run,           \* per thread: frame of BaseScraper.run
    returned,      \* history: what scrape_programs returned in the last logged run
    sched,         \* per thread: position inside BountyPingScheduler.run_scraper
    sent,          \* the calls of notifier.send_batch_summary, in order
    objs,          \* the Program objects constructed so far
    scheduler,     \* the BountyPingScheduler object: running, scrapers
    bg,            \* the thread(s) of start_background_loop and the process around them
    conn,          \* per thread: an upsert_program call between its SELECT and its write
    adapter        \* frame of the adapter's scrape_programs

\* the variables of the scheduler loop, of interleaved upserts and of the adapters
otherVars == <<scheduler, bg, conn, adapter>>

vars == <<programs, scrape_logs, clock, call, run, returned, sched, sent, objs,
          otherVars>>

----------------------------------------------------------------------------
(* Bounds of the model *)

MaxClock == 2
MaxRunClock == 1
MaxRuns == 2
MaxFetch == 2
MaxObjs == 2
MaxSchedFetch == 1
MaxUpserts == 4
MaxSleeps == 2
MaxCalls == 2
MaxPages == 2
MaxPageLen == 2

----------------------------------------------------------------------------
(* Characters and strings *)

DQ == "\""
BS == "\\"

\* str.lower() on one character
LowerChar(c) ==
    CASE c = "A" -> "a"
      [] c = "B" -> "b"
      [] c = "X" -> "x"
      [] OTHER -> c

\* str.lower()
Lower(s) == [i \in 1..Len(s) |-> LowerChar(s[i])]

RECURSIVE Concat(_)
\* "".join(parts)
Concat(parts) ==
    IF parts = <<>> THEN <<>> ELSE Head(parts) \o Concat(Tail(parts))

None == <<>>
Some(v) == <<v>>

\* int(bool)
IntOf(b) == IF b THEN 1 ELSE 0

----------------------------------------------------------------------------
(* json.dumps of a list of strings *)

\* a character inside a JSON string: quote and backslash are escaped
JsonChar(c) == IF c = DQ \/ c = BS THEN <<BS, c>> ELSE <<c>>

\* json.dumps(s) for a str
JsonString(s) ==
    <<DQ>> \o Concat([i \in 1..Len(s) |-> JsonChar(s[i])]) \o <<DQ>>

RECURSIVE JsonItems(_)
\* the items of a list, separated by ", "
JsonItems(list) ==
    IF list = <<>> THEN <<>>
    ELSE IF Len(list) = 1 THEN JsonString(list[1])
    ELSE JsonString(list[1]) \o <<",", " ">> \o JsonItems(Tail(list))

\* json.dumps(list)
JsonDumps(list) == <<"[">> \o JsonItems(list) \o <<"]">>

----------------------------------------------------------------------------
(* db/models.py: Program *)

\* hashlib.md5(key.encode()).hexdigest()[:16]: a digest of the key; the model
\* keeps the key itself behind a marker, so distinct keys have distinct digests.
Md5Hex16(key) == <<"#">> \o key

IdentityCaseSensitive(platform, slug) == Md5Hex16(platform \o <<":">> \o slug)

\* the deterministic id of (platform, slug)
Identity(platform, slug) == Md5Hex16(Lower(platform \o <<":">> \o slug))

PostInitFromName(id, platform, slug, name) ==
    IF id = <<>> THEN Md5Hex16(Lower(platform) \o <<":">> \o <<name>>) ELSE id

\* Program.__post_init__: the id the object ends with
PostInit(id, platform, slug, name) ==
    IF id = <<>> THEN Identity(platform, slug) ELSE id

\* Program(id=..., platform=..., ...): the dataclass constructor with its defaults
\* for the timestamps, followed by __post_init__
Program(id, f) ==
    [id |-> PostInit(id, f.platform, f.slug, f.name),
     platform |-> f.platform, name |-> f.name, slug |-> f.slug, url |-> f.url,
     bounty_min |-> f.bounty_min, bounty_max |-> f.bounty_max,
     currency |-> f.currency,
     assets |-> f.assets, asset_types |-> f.asset_types,
     managed |-> f.managed, vdp_only |-> f.vdp_only,
     accepts_submissions |-> f.accepts_submissions,
     offers_bounties |-> f.offers_bounties]

----------------------------------------------------------------------------
(* db/database.py: the programs table and upsert_program *)

SelectByIdAny(table, id) == table

\* SELECT * FROM programs WHERE id = ?  (fetchone: the row, or none)
SelectById(table, id) == {r \in table : r.id = id}

\* PRIMARY KEY(id), UNIQUE(platform, slug), NOT NULL columns
ConstraintsAllow(table, row) ==
    /\ \A r \in table : r.id /= row.id
    /\ \A r \in table : ~(r.platform = row.platform /\ r.slug = row.slug)
    /\ row.name /= "NULL"
    /\ row.url /= "NULL"

InsertedRowFirstSeenLast(p, t1, t2, t3) ==
    [id |-> p.id, platform |-> p.platform, name |-> p.name, slug |-> p.slug,
     url |-> p.url, bounty_min |-> p.bounty_min, bounty_max |-> p.bounty_max,
     currency |-> p.currency,
     assets |-> JsonDumps(p.assets), asset_types |-> JsonDumps(p.asset_types),
     managed |-> IntOf(p.managed), vdp_only |-> IntOf(p.vdp_only),
     accepts_submissions |-> IntOf(p.accepts_submissions),
     offers_bounties |-> IntOf(p.offers_bounties),
     first_seen |-> t3, last_updated |-> t1, last_scraped |-> t2]

InsertedRowScrapedFirst(p, t1, t2, t3) ==
    [id |-> p.id, platform |-> p.platform, name |-> p.name, slug |-> p.slug,
     url |-> p.url, bounty_min |-> p.bounty_min, bounty_max |-> p.bounty_max,
     currency |-> p.currency,
     assets |-> JsonDumps(p.assets), asset_types |-> JsonDumps(p.asset_types),
     managed |-> IntOf(p.managed), vdp_only |-> IntOf(p.vdp_only),
     accepts_submissions |-> IntOf(p.accepts_submissions),
     offers_bounties |-> IntOf(p.offers_bounties),
     first_seen |-> t1, last_updated |-> t3, last_scraped |-> t2]

\* the row INSERT writes for a new program
InsertedRow(p, t1, t2, t3) ==
    [id |-> p.id, platform |-> p.platform, name |-> p.name, slug |-> p.slug,
     url |-> p.url, bounty_min |-> p.bounty_min, bounty_max |-> p.bounty_max,
     currency |-> p.currency,
     assets |-> JsonDumps(p.assets), asset_types |-> JsonDumps(p.asset_types),
     managed |-> IntOf(p.managed), vdp_only |-> IntOf(p.vdp_only),
     accepts_submissions |-> IntOf(p.accepts_submissions),
     offers_bounties |-> IntOf(p.offers_bounties),
     first_seen |-> t1, last_updated |-> t2, last_scraped |-> t3]

\* old_data of the existing row
OldData(existing) ==
    [bounty_min |-> existing.bounty_min, bounty_max |-> existing.bounty_max,
     assets |-> existing.assets, url |-> existing.url]

NewDataNoUrl(existing, p) ==
    [bounty_min |-> p.bounty_min, bounty_max |-> p.bounty_max,
     assets |-> JsonDumps(p.assets), url |-> existing.url]

\* new_data of the incoming program
NewData(existing, p) ==
    [bounty_min |-> p.bounty_min, bounty_max |-> p.bounty_max,
     assets |-> JsonDumps(p.assets), url |-> p.url]

\* is_updated = old_data != new_data
IsUpdated(existing, p) == OldData(existing) /= NewData(existing, p)

LastUpdatedAlways(existing, is_updated, now) == now

\* now if is_updated else existing['last_updated']
LastUpdatedValue(existing, is_updated, now) ==
    IF is_updated THEN now ELSE existing.last_updated

FirstSeenRefreshed(existing, now) == now

\* UPDATE has no first_seen column in its SET list
FirstSeenValue(existing, now) == existing.first_seen

LastScrapedKept(existing, now) == existing.last_scraped

\* last_scraped = now
LastScrapedValue(existing, now) == now

\* the row UPDATE leaves for an existing program (id, platform, slug are not in SET)
UpdatedRow(existing, p, is_updated, now) ==
    [id |-> existing.id, platform |-> existing.platform, slug |-> existing.slug,
     name |-> p.name, url |-> p.url,
     bounty_min |-> p.bounty_min, bounty_max |-> p.bounty_max,
     currency |-> p.currency,
     assets |-> JsonDumps(p.assets), asset_types |-> JsonDumps(p.asset_types),
     managed |-> IntOf(p.managed), vdp_only |-> IntOf(p.vdp_only),
     accepts_submissions |-> IntOf(p.accepts_submissions),
     offers_bounties |-> IntOf(p.offers_bounties),
     first_seen |-> FirstSeenValue(existing, now),
     last_updated |-> LastUpdatedValue(existing, is_updated, now),
     last_scraped |-> LastScrapedValue(existing, now)]

\* datetime.utcnow(): a reading not before the last one
ReadingsUpTo(last, max) == {t \in {last, last + 1} : t <= max}

\* the readings of a direct upsert_program call
Readings(last) == ReadingsUpTo(last, MaxClock)

\* the readings taken inside BaseScraper.run
RunReadings(last) == ReadingsUpTo(last, MaxRunClock)

\* BountyDatabase.upsert_program(program) with its clock readings: now (line 94)
\* and, for a new program, the three readings of lines 105-107.
\* The result: the table after commit, the returned pair, the frame, the clock.
Upsert(table, p, now, t1, t2, t3) ==
    LET found == SelectById(table, p.id)
        is_new == found = {}
    IN  IF is_new
        THEN LET row == InsertedRow(p, t1, t2, t3)
                 ok == ConstraintsAllow(table, row)
             IN  [table |-> IF ok THEN table \cup {row} ELSE table,
                  raised |-> ~ok, is_new |-> TRUE, is_updated |-> FALSE,
                  existing |-> <<>>, now |-> now, clock |-> t3]
        ELSE LET existing == CHOOSE r \in found : TRUE
                 is_updated == IsUpdated(existing, p)
                 row == UpdatedRow(existing, p, is_updated, now)
                 ok == row.name /= "NULL" /\ row.url /= "NULL"
             IN  [table |-> IF ok THEN (table \ {existing}) \cup {row} ELSE table,
                  raised |-> ~ok, is_new |-> FALSE, is_updated |-> is_updated,
                  existing |-> <<existing>>, now |-> now, clock |-> now]

\* the frame of a finished upsert_program call
Frame(p, u) ==
    [program |-> <<p>>, existing |-> u.existing, now |-> u.now,
     is_new |-> u.is_new, is_updated |-> u.is_updated, raised |-> u.raised]

NoCall ==
    [program |-> <<>>, existing |-> <<>>, now |-> 0,
     is_new |-> FALSE, is_updated |-> FALSE, raised |-> FALSE]

----------------------------------------------------------------------------
(* The records the adapters hand to the catalog *)

A1 == <<"d">>
A2 == <<"e">>
\* one asset whose text holds a quote and a comma:  d", "e
A3 == <<"d", DQ, ",", " ", DQ, "e">>

\* the fields an adapter passes to Program(...)
BaseFields(slug) ==
    [platform |-> <<"x">>, slug |-> slug, name |-> "A", url |-> "u1",
     bounty_min |-> None, bounty_max |-> Some(500), currency |-> "USD",
     assets |-> <<A1, A2>>, asset_types |-> <<>>,
     managed |-> FALSE, vdp_only |-> FALSE,
     accepts_submissions |-> TRUE, offers_bounties |-> TRUE]

\* the same program with one field, or only non-material fields, changed
Variants(f) ==
    {f,
     [f EXCEPT !.name = "A2"],
     [f EXCEPT !.currency = "EUR", !.asset_types = <<A1>>, !.managed = TRUE,
               !.vdp_only = TRUE, !.accepts_submissions = FALSE,
               !.offers_bounties = FALSE],
     [f EXCEPT !.bounty_min = Some(100)],
     [f EXCEPT !.bounty_max = Some(900)],
     [f EXCEPT !.url = "u2"],
     [f EXCEPT !.assets = <<A2, A1>>],
     [f EXCEPT !.assets = <<A3>>]}

\* both adapters build every Program with id="" (hackerone.py:136,
\* projectdiscovery.py:87)
Feed ==
    {Program(<<>>, f) : f \in Variants(BaseFields(<<"a">>))
                             \cup {BaseFields(<<"A">>), BaseFields(<<"b">>)}}

----------------------------------------------------------------------------
(* Initial state *)

Threads == {"loop", "caller"}

IdleRun == [pc |-> "idle"]

\* summary: what send_batch_summary returned ("none": not called);
\* result: what run_scraper returned (empty: nothing, or the log)
IdleSched == [pc |-> "idle", platform |-> "", summary |-> "none", result |-> <<>>]

\* no run has been logged yet
NothingReturned == [logged |-> FALSE, ok |-> FALSE, programs |-> <<>>]

\* BountyPingScheduler.__init__: one registered scraper, running = False, a
\* notifier whose webhook_url is DISCORD_WEBHOOK_URL (config.py: "" when the
\* environment does not set it)
NewScheduler ==
    [running |-> FALSE, scrapers |-> <<"hackerone">>, webhook_url |-> ""]

\* start_background_loop has not been called
NoLoop == [main |-> "init", pc |-> "none", passes |-> 0, sleeps |-> 0, mark |-> 0]

\* no upsert_program call is open
ClosedConn == [pc |-> "closed", calls |-> 0]

\* scrape_programs has not been called
IdleAdapter ==
    [pc |-> "idle", kind |-> "", run |-> 0, programs |-> <<>>, page |-> 0,
     failed |-> FALSE, cursor |-> <<>>, raw |-> <<>>, truncated |-> FALSE]

Init ==
    /\ programs = {}
    /\ scrape_logs = <<>>
    /\ clock = 0
    /\ call = NoCall
    /\ run = [t \in Threads |-> IdleRun]
    /\ returned = NothingReturned
    /\ sched = [t \in Threads |-> IdleSched]
    /\ sent = <<>>
    /\ objs = <<>>
    /\ scheduler = NewScheduler
    /\ bg = NoLoop
    /\ conn = [t \in Threads |-> ClosedConn]
    /\ adapter = IdleAdapter

----------------------------------------------------------------------------
(* SpecDb: calls of BountyDatabase.upsert_program, one after the other *)

\* db.upsert_program(p), the whole call
upsert_program(p) ==
    \E now \in Readings(clock) :
        LET fresh == SelectById(programs, p.id) = {}
        IN  \E t1 \in (IF fresh THEN Readings(now) ELSE {now}) :
            \E t2 \in (IF fresh THEN Readings(t1) ELSE {now}) :
            \E t3 \in (IF fresh THEN Readings(t2) ELSE {now}) :
                LET u == Upsert(programs, p, now, t1, t2, t3)
                IN  /\ programs' = u.table
                    /\ clock' = u.clock
                    /\ call' = Frame(p, u)
                    /\ UNCHANGED <<scrape_logs, run, returned, sched, sent, objs, otherVars>>

NextDb == \E p \in Feed : upsert_program(p)

SpecDb == Init /\ [][NextDb]_vars

----------------------------------------------------------------------------
(* Properties of upsert_program (SpecDb) *)

RowOf(table, id) == CHOOSE r \in table : r.id = id

\* the last upsert_program call returned (did not raise) for an id that was stored
UpdatedExisting == call.program /= <<>> /\ ~call.is_new /\ ~call.raised

\* the last upsert_program call returned after inserting a new row
InsertedNew == call.program /= <<>> /\ call.is_new /\ ~call.raised

AssetLists == {p.assets : p \in Feed}

\* the ordered sequence of assets a stored JSON text stands for
AssetsOf(text) == CHOOSE list \in AssetLists : JsonDumps(list) = text

\* a material field of the incoming program differs from the stored record
MaterialDiffers(existing, p) ==
    \/ p.bounty_min /= existing.bounty_min
    \/ p.bounty_max /= existing.bounty_max
    \/ p.assets /= AssetsOf(existing.assets)
    \/ p.url /= existing.url

\* the non-material columns of the row hold the incoming values
NonMaterialOverwritten(row, p) ==
    /\ row.name = p.name
    /\ row.currency = p.currency
    /\ row.asset_types = JsonDumps(p.asset_types)
    /\ row.managed = IntOf(p.managed)
    /\ row.vdp_only = IntOf(p.vdp_only)
    /\ row.accepts_submissions = IntOf(p.accepts_submissions)
    /\ row.offers_bounties = IntOf(p.offers_bounties)

\* C2: an upsert of a stored identity returns is_updated = TRUE exactly when
\* bounty_min, bounty_max, assets (as an ordered sequence) or url differs from
\* the stored record, and the non-material columns are overwritten either way.
C2_ChangeClassification ==
    UpdatedExisting =>
        LET p == call.program[1]
            existing == call.existing[1]
        IN  /\ call.is_updated <=> MaterialDiffers(existing, p)
            /\ NonMaterialOverwritten(RowOf(programs, p.id), p)

\* an upsert that changed only the name returned is_updated = FALSE and the
\* stored name is the new one
C2_Witness ==
    /\ UpdatedExisting
    /\ ~call.is_updated
    /\ call.existing[1].name /= call.program[1].name
    /\ RowOf(programs, call.program[1].id).name = call.program[1].name

C7_FirstSeenImmutable ==
    [][\A r \in programs :
           \E r2 \in programs' : r2.id = r.id /\ r2.first_seen = r.first_seen]_vars

\* a stored row was updated with a material change at a later reading than its
\* first_seen
C7_Witness ==
    /\ UpdatedExisting
    /\ call.is_updated
    /\ RowOf(programs, call.program[1].id).first_seen < call.now

\* C8: an upsert of a stored identity with all four material fields equal
\* leaves last_updated as it was; with one of them different it sets
\* last_updated to the reading taken by that upsert, later than the old value
\* when the clock has advanced since the row was last scraped.
C8_LastUpdated ==
    UpdatedExisting =>
        LET p == call.program[1]
            existing == call.existing[1]
            row == RowOf(programs, p.id)
        IN  IF MaterialDiffers(existing, p)
            THEN /\ row.last_updated = call.now
                 /\ row.last_updated >= existing.last_updated
                 /\ (call.now > existing.last_scraped
                        => row.last_updated > existing.last_updated)
            ELSE row.last_updated = existing.last_updated

\* a material change moved last_updated forward
C8_Witness ==
    /\ UpdatedExisting
    /\ call.is_updated
    /\ RowOf(programs, call.program[1].id).last_updated
           > call.existing[1].last_updated

\* C9: every upsert that returns leaves the row with a last_scraped read
\* during that upsert, and no step lowers the last_scraped of a stored row.
C9_LastScrapedMonotone ==
    [][/\ \A r \in programs :
              \E r2 \in programs' :
                  r2.id = r.id /\ r2.last_scraped >= r.last_scraped
       /\ (call'.program /= <<>> /\ ~call'.raised) =>
              LET row == RowOf(programs', call'.program[1].id)
              IN  /\ clock <= call'.now
                  /\ call'.now <= row.last_scraped
                  /\ row.last_scraped <= clock']_vars

\* an upsert without any material change moved last_scraped forward
C9_Witness ==
    /\ UpdatedExisting
    /\ ~call.is_updated
    /\ RowOf(programs, call.program[1].id).last_scraped
           > call.existing[1].last_scraped

\* C10: the row of a first insert has first_seen = last_updated = last_scraped.
C10_InsertSameInstant ==
    InsertedNew =>
        LET row == RowOf(programs, call.program[1].id)
        IN  row.first_seen = row.last_updated /\ row.last_updated = row.last_scraped

\* C26: every stored row has first_seen <= last_updated (the readings of the
\* clock never decrease).
C26_FirstSeenBeforeLastUpdated ==
    \A r \in programs : r.first_seen <= r.last_updated

\* a row inserted at reading 0 whose material change was stored at reading 2,
\* and a row whose INSERT took its readings at two instants
C26_Witness ==
    /\ UpdatedExisting
    /\ call.is_updated
    /\ \E r \in programs :
          r.id = call.program[1].id /\ r.first_seen = 0 /\ r.last_updated = 2
    /\ \E r \in programs : r.first_seen = 0 /\ r.last_updated = 1

\* C33: with readings of the clock that never decrease, every stored row has
\* last_updated <= last_scraped after any sequence of upserts: after the
\* INSERT, after an UPDATE that found a material change and after one that
\* found none.
C33_LastUpdatedBeforeLastScraped ==
    \A r \in programs : r.last_updated <= r.last_scraped

\* an UPDATE without material change left last_updated behind last_scraped,
\* next to a row whose INSERT read the clock at two instants and a row whose
\* two timestamps are the same reading
C33_Witness ==
    /\ UpdatedExisting
    /\ ~call.is_updated
    /\ LET row == RowOf(programs, call.program[1].id)
       IN  row.last_updated < row.last_scraped /\ row.last_scraped = call.now
    /\ \E r \in programs :
          r.id /= call.program[1].id /\ r.last_updated = r.last_scraped
    /\ \E r \in programs : r.first_seen < r.last_scraped

----------------------------------------------------------------------------
(* scrapers/base.py: BaseScraper.run, one step per statement group *)

\* ScrapeLog(platform=..., started_at=...) with the dataclass defaults
ScrapeLog(platform, started_at) ==
    [platform |-> platform, started_at |-> started_at, completed_at |-> None,
     programs_found |-> 0, programs_new |-> 0, programs_updated |-> 0,
     success |-> TRUE, error_message |-> None]

SucceededLogNoCounts(log, new_count, updated_count, t) ==
    [log EXCEPT !.success = TRUE, !.completed_at = Some(t)]

SucceededLogCountsFound(log, new_count, updated_count, t) ==
    [log EXCEPT !.programs_new = log.programs_found,
                !.programs_updated = updated_count,
                !.success = TRUE, !.completed_at = Some(t)]

\* lines 69-72: the end of the try block
SucceededLog(log, new_count, updated_count, t) ==
    [log EXCEPT !.programs_new = new_count, !.programs_updated = updated_count,
                !.success = TRUE, !.completed_at = Some(t)]

FailedLogKeepsSuccess(log, e, t) ==
    [log EXCEPT !.error_message = Some(e), !.completed_at = Some(t)]

FailedLogNoMessage(log, e, t) ==
    [log EXCEPT !.success = FALSE, !.completed_at = Some(t)]

\* lines 80-82: the except block
FailedLog(log, e, t) ==
    [log EXCEPT !.success = FALSE, !.error_message = Some(e),
                !.completed_at = Some(t)]

\* a record whose name is None: node.get('name', handle) of a node that holds
\* "name": null (hackerone.py:116); the column name is NOT NULL
NullName == [BaseFields(<<"b">>) EXCEPT !.name = "NULL"]

\* the lists scrape_programs may return in a run
RunFeed ==
    {Program(<<>>, f) :
        f \in {BaseFields(<<"a">>),
               [BaseFields(<<"a">>) EXCEPT !.bounty_max = Some(900)],
               BaseFields(<<"b">>),
               NullName}}

RECURSIVE ListsUpTo(_, _)
ListsUpTo(S, n) ==
    IF n = 0 THEN {<<>>}
    ELSE LET shorter == ListsUpTo(S, n - 1)
         IN  shorter \cup {Append(l, x) : l \in shorter, x \in S}

Batches == ListsUpTo(RunFeed, MaxFetch)

\* runs started and not yet logged
InFlight == Cardinality({t \in Threads : run[t].pc \notin {"idle", "done"}})

RECURSIVE SumFound(_)
SumFound(logs) ==
    IF logs = <<>> THEN 0
    ELSE Head(logs).programs_found + SumFound(Tail(logs))

RECURSIVE SumLens(_)
SumLens(S) ==
    IF S = {} THEN 0
    ELSE LET t == CHOOSE x \in S : TRUE
         IN  Len(run[t].programs) + SumLens(S \ {t})

\* programs fetched so far, over all runs
Fetched ==
    SumFound(scrape_logs)
        + SumLens({t \in Threads : run[t].pc \in {"loop", "log"}})

\* lines 47-50: log = ScrapeLog(platform, started_at=utcnow())
RunStart(t, platform) ==
    /\ run[t].pc = "idle"
    /\ Len(scrape_logs) + InFlight < MaxRuns
    /\ \E now \in RunReadings(clock) :
          /\ clock' = now
          /\ run' = [run EXCEPT ![t] =
                [pc |-> "fetch", log |-> ScrapeLog(platform, now),
                 programs |-> <<>>, i |-> 1, new_count |-> 0,
                 updated_count |-> 0, fetched |-> FALSE]]
    /\ UNCHANGED <<programs, scrape_logs, call, returned, sched, sent, objs, otherVars>>

\* lines 54-58: scrape_programs() returns a list
ScrapeReturns(t, list) ==
    /\ run[t].pc = "fetch"
    /\ Fetched + Len(list) <= MaxUpserts
    /\ run' = [run EXCEPT ![t].pc = "loop", ![t].programs = list,
                          ![t].fetched = TRUE,
                          ![t].log.programs_found = Len(list)]
    /\ UNCHANGED <<programs, scrape_logs, clock, call, returned, sched, sent, objs, otherVars>>

\* line 54: scrape_programs() raises; control passes to the except block
ScrapeRaises(t) ==
    /\ run[t].pc = "fetch"
    /\ \E now \in RunReadings(clock) :
          /\ clock' = now
          /\ run' = [run EXCEPT ![t].pc = "log",
                        ![t].log = FailedLog(run[t].log, "SourceFetchError", now)]
    /\ UNCHANGED <<programs, scrape_logs, call, returned, sched, sent, objs, otherVars>>

\* lines 60-67: one iteration of the loop, the whole upsert_program call; an
\* exception of the call passes to the except block
UpsertNext(t) ==
    /\ run[t].pc = "loop"
    /\ run[t].i <= Len(run[t].programs)
    /\ LET p == run[t].programs[run[t].i]
           fresh == SelectById(programs, p.id) = {}
       IN  \E now \in RunReadings(clock) :
           \E t1 \in (IF fresh THEN RunReadings(now) ELSE {now}) :
           \E t2 \in (IF fresh THEN RunReadings(t1) ELSE {now}) :
           \E t3 \in (IF fresh THEN RunReadings(t2) ELSE {now}) :
               LET u == Upsert(programs, p, now, t1, t2, t3)
               IN  /\ programs' = u.table
                   /\ call' = Frame(p, u)
                   /\ IF u.raised
                      THEN \E t4 \in RunReadings(u.clock) :
                              /\ clock' = t4
                              /\ run' = [run EXCEPT ![t].pc = "log",
                                    ![t].log = FailedLog(run[t].log, "IntegrityError", t4)]
                      ELSE /\ clock' = u.clock
                           /\ run' = [run EXCEPT
                                 ![t].i = @ + 1,
                                 ![t].new_count = IF u.is_new THEN @ + 1 ELSE @,
                                 ![t].updated_count =
                                     IF ~u.is_new /\ u.is_updated THEN @ + 1 ELSE @]
    /\ UNCHANGED <<scrape_logs, returned, sched, sent, objs, otherVars>>

\* lines 69-72: the loop is over
LoopEnd(t) ==
    /\ run[t].pc = "loop"
    /\ run[t].i > Len(run[t].programs)
    /\ \E now \in RunReadings(clock) :
          /\ clock' = now
          /\ run' = [run EXCEPT ![t].pc = "log",
                        ![t].log = SucceededLog(run[t].log, run[t].new_count,
                                                run[t].updated_count, now)]
    /\ UNCHANGED <<programs, scrape_logs, call, returned, sched, sent, objs, otherVars>>

LogScrapeRowNoCompletion(log) == [log EXCEPT !.completed_at = None]

\* database.py log_scrape: INSERT INTO scrape_logs
LogScrapeRow(log) == log

LogScrapeOverwrites(t) ==
    /\ run[t].pc = "log"
    /\ scrape_logs' = IF scrape_logs = <<>> THEN <<LogScrapeRow(run[t].log)>>
                      ELSE [scrape_logs EXCEPT ![Len(scrape_logs)] =
                                LogScrapeRow(run[t].log)]
    /\ returned' = [logged |-> TRUE, ok |-> run[t].fetched,
                     programs |-> run[t].programs]
    /\ run' = [run EXCEPT ![t].pc = "done"]
    /\ UNCHANGED <<programs, clock, call, sched, sent, objs, otherVars>>

\* lines 86-87: self.db.log_scrape(log); return log
LogScrape(t) ==
    /\ run[t].pc = "log"
    /\ scrape_logs' = Append(scrape_logs, LogScrapeRow(run[t].log))
    /\ returned' = [logged |-> TRUE, ok |-> run[t].fetched,
                     programs |-> run[t].programs]
    /\ run' = [run EXCEPT ![t].pc = "done"]
    /\ UNCHANGED <<programs, clock, call, sched, sent, objs, otherVars>>

\* cli.py cmd_scrape / cmd_seed: the caller prints the log and the frame is gone
RunReturns(t) ==
    /\ run[t].pc = "done"
    /\ run' = [run EXCEPT ![t] = IdleRun]
    /\ UNCHANGED <<programs, scrape_logs, clock, call, returned, sched, sent, objs, otherVars>>

----------------------------------------------------------------------------
(* Spec: runs of one scraper, one after the other (cli.py scrape) *)

Main == "caller"

Next ==
    \/ RunStart(Main, "x")
    \/ \E list \in Batches : ScrapeReturns(Main, list)
    \/ ScrapeRaises(Main)
    \/ UpsertNext(Main)
    \/ LoopEnd(Main)
    \/ LogScrape(Main)
    \/ RunReturns(Main)

Spec == Init /\ [][Next]_vars

\* the thread that executes run() keeps being scheduled
SpecLive == Spec /\ WF_vars(Next)

----------------------------------------------------------------------------
(* Properties of BaseScraper.run (Spec) *)

LastLog == scrape_logs[Len(scrape_logs)]

\* C1: a run whose fetch returns the list the previous run's fetch returned
\* logs programs_new = 0 and programs_updated = 0.
C1_Idempotent ==
    [][\A t \in Threads :
          (/\ run[t].pc = "log" /\ run'[t].pc = "done"
           /\ run[t].fetched
           /\ returned.logged /\ returned.ok
           /\ returned.programs = run[t].programs)
          => /\ scrape_logs'[Len(scrape_logs')].programs_new = 0
             /\ scrape_logs'[Len(scrape_logs')].programs_updated = 0]_vars

\* the entry of a failed fetch
FailedFetchEntry(e) ==
    /\ ~e.success
    /\ e.programs_found = 0 /\ e.programs_new = 0 /\ e.programs_updated = 0
    /\ e.error_message /= None

\* C3: when scrape_programs raises, the run calls no upsert, leaves the table
\* programs as it is, and appends one entry with success = FALSE, the three
\* counts 0 and the error message set.
C3_FailedFetchIsolated ==
    [][\A t \in Threads :
          /\ (run[t].pc = "fetch" /\ run'[t].pc = "log")
                => /\ programs' = programs /\ call' = call
                   /\ scrape_logs' = scrape_logs
                   /\ FailedFetchEntry(run'[t].log)
          /\ (run[t].pc = "log" /\ ~run[t].fetched /\ run'[t].pc = "done")
                => /\ programs' = programs /\ call' = call
                   /\ scrape_logs' = Append(scrape_logs, run[t].log)
                   /\ FailedFetchEntry(scrape_logs'[Len(scrape_logs')])]_vars

\* a failed fetch was logged after an earlier run had stored programs
C3_Witness ==
    /\ run[Main].pc = "done"
    /\ ~run[Main].fetched
    /\ programs /= {}
    /\ Len(scrape_logs) = 2
    /\ scrape_logs[1].success /\ scrape_logs[1].programs_new > 0
    /\ FailedFetchEntry(scrape_logs[2])

\* C11: a run appends exactly one entry to scrape_logs, between the end of its
\* try/except and its return, whether it succeeded or failed; nothing else
\* appends; the entry has started_at and completed_at set and
\* started_at <= completed_at.
C11_OneLogEntryPerRun ==
    [][/\ scrape_logs' /= scrape_logs
            => \E t \in Threads :
                  /\ run[t].pc = "log" /\ run'[t].pc = "done"
                  /\ scrape_logs' = Append(scrape_logs, run[t].log)
       /\ \A t \in Threads :
            /\ (run[t].pc /= "done" /\ run'[t].pc = "done")
                  => /\ run[t].pc = "log"
                     /\ Len(scrape_logs') = Len(scrape_logs) + 1
                     /\ LET e == scrape_logs'[Len(scrape_logs')]
                        IN  /\ e.platform = run[t].log.platform
                            /\ e.completed_at /= None
                            /\ e.started_at <= e.completed_at[1]
            /\ (run[t].pc /= "idle" /\ run'[t].pc = "idle")
                  => run[t].pc = "done"]_vars

\* a successful run and then a run that failed in an upsert were both logged,
\* the second one completed later than it started
C11_Witness ==
    /\ Len(scrape_logs) = 2
    /\ run[Main].pc = "done"
    /\ scrape_logs[1].success
    /\ ~scrape_logs[2].success /\ run[Main].fetched
    /\ scrape_logs[2].started_at < scrape_logs[2].completed_at[1]

\* C12: found is the length of the fetched list; every upsert that returns
\* adds int(is_new) to the new count and int(is_updated) to the updated count,
\* never both; a successful run logs these counts, and new + updated <= found.
C12_RunCounts ==
    [][\A t \in Threads :
          /\ (run[t].pc = "fetch" /\ run'[t].pc = "loop")
                => /\ run'[t].log.programs_found = Len(run'[t].programs)
                   /\ run'[t].new_count = 0 /\ run'[t].updated_count = 0
          /\ (run[t].pc = "loop" /\ run'[t].pc = "loop")
                => /\ call'.program = <<run[t].programs[run[t].i]>>
                   /\ ~(call'.is_new /\ call'.is_updated)
                   /\ run'[t].new_count = run[t].new_count + IntOf(call'.is_new)
                   /\ run'[t].updated_count =
                         run[t].updated_count + IntOf(call'.is_updated)
                   /\ run'[t].log = run[t].log
          /\ (run[t].pc = "loop" /\ run'[t].pc = "log" /\ run'[t].log.success)
                => /\ run[t].i = Len(run[t].programs) + 1
                   /\ run'[t].log.programs_found = Len(run[t].programs)
                   /\ run'[t].log.programs_new = run[t].new_count
                   /\ run'[t].log.programs_updated = run[t].updated_count
                   /\ run[t].new_count + run[t].updated_count
                         <= Len(run[t].programs)]_vars

\* a successful run of two records was logged with one new, one updated
C12_Witness ==
    /\ run[Main].pc = "done"
    /\ LastLog.success
    /\ LastLog.programs_found = 2
    /\ LastLog.programs_new = 1 /\ LastLog.programs_updated = 1

C14_UpsertFailureSkipsRecord ==
    [][\A t \in Threads :
          (run[t].pc = "loop" /\ call' /= call /\ call'.raised)
             => /\ run'[t].pc = "loop"
                /\ run'[t].i = run[t].i + 1
                /\ run'[t].log.success]_vars

RECURSIVE SumNew(_)
\* the sum of programs_new over the entries of the run log
SumNew(logs) ==
    IF logs = <<>> THEN 0
    ELSE Head(logs).programs_new + SumNew(Tail(logs))

\* C23: every run-log entry, of a successful or a failed run, carries the
\* number of rows its run inserted (new_count) and refreshed (updated_count),
\* so that between runs the catalog holds as many rows as the entries of the
\* log report as new.
C23_LogMatchesCatalog ==
    /\ [](run[Main].pc \in {"idle", "done"}
            => Cardinality(programs) = SumNew(scrape_logs))
    /\ [][\A t \in Threads :
            (run[t].pc = "log" /\ run'[t].pc = "done")
               => /\ scrape_logs'[Len(scrape_logs')].programs_new
                        = run[t].new_count
                  /\ scrape_logs'[Len(scrape_logs')].programs_updated
                        = run[t].updated_count]_vars

\* the identities stored in a table, and those of a fetched list
Ids(table) == {r.id : r \in table}

BatchIds(list) == {list[i].id : i \in DOMAIN list}

\* C31: a run that starts when the catalog holds the identities S and ends
\* successfully, with no other writer, leaves Cardinality(S) + programs_new
\* rows, and its programs_new is the number of distinct identities of the
\* fetched list that are not in S.
C31_CatalogGrowthMatchesLog ==
    \A S \in SUBSET Ids(RunFeed) : \A k \in 0..(MaxRuns - 1) :
        []((run[Main].pc = "fetch" /\ Len(scrape_logs) = k /\ Ids(programs) = S)
             => []((/\ run[Main].pc = "done"
                    /\ Len(scrape_logs) = k + 1
                    /\ scrape_logs[k + 1].success)
                      => /\ Cardinality(programs)
                              = Cardinality(S) + scrape_logs[k + 1].programs_new
                         /\ scrape_logs[k + 1].programs_new
                              = Cardinality(BatchIds(run[Main].programs) \ S)))

\* the second run succeeded on a list of two identities, one stored by the
\* first run and one new
C31_Witness ==
    /\ run[Main].pc = "done"
    /\ Len(scrape_logs) = 2
    /\ scrape_logs[1].success /\ scrape_logs[1].programs_new = 1
    /\ scrape_logs[2].success /\ scrape_logs[2].programs_new = 1
    /\ scrape_logs[2].programs_found = 2
    /\ Cardinality(BatchIds(run[Main].programs)) = 2
    /\ Cardinality(programs) = 2

\* C24: no step removes an identity from the table programs, and a step that
\* changes a stored row is the upsert of a fetched record with that row's id;
\* the rows of identities that a run did not fetch stay as they are.
C24_NeverDeleted ==
    [][\A r \in programs :
          /\ \E r2 \in programs' : r2.id = r.id
          /\ r \notin programs'
                => \E t \in Threads :
                      /\ run[t].pc = "loop"
                      /\ run[t].i <= Len(run[t].programs)
                      /\ run[t].programs[run[t].i].id = r.id]_vars

\* a second run fetched only another identity and was logged; the row of the
\* first run's identity is as the first run left it
C24_Witness ==
    /\ Len(scrape_logs) = 2
    /\ run[Main].pc = "done"
    /\ scrape_logs[2].success /\ scrape_logs[2].programs_new = 1
    /\ scrape_logs[2].started_at = 1
    /\ \A i \in 1..Len(returned.programs) :
          returned.programs[i].id = Identity(<<"x">>, <<"b">>)
    /\ \E r \in programs :
          /\ r.id = Identity(<<"x">>, <<"a">>)
          /\ r.last_scraped = 0

\* C25: scrape_logs changes only by the log_scrape step of a run, which adds
\* one entry at the end; the entries already written stay as they are and the
\* number of entries never decreases.
C25_RunLogAppendOnly ==
    [][/\ Len(scrape_logs') >= Len(scrape_logs)
       /\ SubSeq(scrape_logs', 1, Len(scrape_logs)) = scrape_logs
       /\ scrape_logs' /= scrape_logs
             => /\ Len(scrape_logs') = Len(scrape_logs) + 1
                /\ \E t \in Threads :
                      run[t].pc = "log" /\ run'[t].pc = "done"]_vars

\* the entry of a first, successful run is still in place after a second run
\* upserted a record, failed and was logged
C25_Witness ==
    /\ Len(scrape_logs) = 2
    /\ run[Main].pc = "done"
    /\ scrape_logs[1].success /\ scrape_logs[1].programs_found = 2
    /\ scrape_logs[1].completed_at = Some(0)
    /\ ~scrape_logs[2].success /\ scrape_logs[2].programs_found = 2
    /\ scrape_logs[2].error_message = Some("IntegrityError")
    /\ call.raised

----------------------------------------------------------------------------
(* scheduler.py: BountyPingScheduler.run_scraper, called by the background   *)
(* loop thread and by an on-demand caller                                    *)

\* the platforms registered in self.scrapers
Scrapers == {scheduler.scrapers[i] : i \in DOMAIN scheduler.scrapers}

\* lines 39-47: the platform lookup; an unknown platform returns at once
RunScraper(t, platform) ==
    /\ sched[t].pc = "idle"
    /\ run[t].pc = "idle"
    /\ Len(scrape_logs) + InFlight < MaxRuns
    /\ sched' = [sched EXCEPT ![t] =
          IF platform \in Scrapers
          THEN [pc |-> "run", platform |-> platform, summary |-> "none",
                result |-> <<>>]
          ELSE [pc |-> "idle", platform |-> platform, summary |-> "none",
                result |-> <<>>]]
    /\ UNCHANGED <<programs, scrape_logs, clock, call, run, returned, sent, objs, otherVars>>

\* line 50: scraper.run() starts
SchedRunStart(t) ==
    /\ sched[t].pc = "run"
    /\ RunStart(t, sched[t].platform)

ShouldNotifyNewOnly(log) == log.success /\ log.programs_new > 0

\* line 53: the condition of the notification
ShouldNotify(log) ==
    log.success /\ (log.programs_new > 0 \/ log.programs_updated > 0)

SendWebhookRaises(delivered) == IF delivered THEN "true" ELSE "raised"

\* discord.py _send_webhook: True when the POST succeeded; an exception of the
\* POST or of raise_for_status is caught and False is returned
SendWebhook(delivered) == IF delivered THEN "true" ELSE "false"

\* discord.py send_batch_summary(new_count, updated_count, platform)
SendBatchSummary(webhook_url, new_count, updated_count, delivered) ==
    IF webhook_url = "" \/ (new_count = 0 /\ updated_count = 0)
    THEN "false"
    ELSE SendWebhook(delivered)

\* lines 53-74: the summary is sent for a successful run with something new or
\* updated, and run_scraper returns the log; run_scraper has no handler
\* around the call, an exception of it would leave run_scraper
AfterRun(t) ==
    /\ sched[t].pc = "run"
    /\ run[t].pc = "done"
    /\ \E delivered \in BOOLEAN :
          LET log == run[t].log
              summary == IF ShouldNotify(log)
                         THEN SendBatchSummary(scheduler.webhook_url,
                                               log.programs_new,
                                               log.programs_updated, delivered)
                         ELSE "none"
          IN  /\ sent' = IF ShouldNotify(log)
                         THEN Append(sent, [new |-> log.programs_new,
                                            updated |-> log.programs_updated,
                                            platform |-> sched[t].platform])
                         ELSE sent
              /\ sched' = [sched EXCEPT
                    ![t].pc = "idle",
                    ![t].summary = summary,
                    ![t].result = IF summary = "raised" THEN <<>> ELSE <<log>>]
    /\ run' = [run EXCEPT ![t] = IdleRun]
    /\ UNCHANGED <<programs, scrape_logs, clock, call, returned, objs, otherVars>>

\* what scrape_programs may return to a scheduled run
SchedBatches == ListsUpTo(RunFeed, MaxSchedFetch)

NextSched ==
    \/ RunScraper("loop", "hackerone")
    \/ \E platform \in {"hackerone", "bugcrowd"} : RunScraper("caller", platform)
    \/ \E t \in Threads :
          \/ SchedRunStart(t)
          \/ \E list \in SchedBatches : ScrapeReturns(t, list)
          \/ ScrapeRaises(t)
          \/ UpsertNext(t)
          \/ LoopEnd(t)
          \/ LogScrape(t)
          \/ AfterRun(t)

SpecSched == Init /\ [][NextSched]_vars

\* a scheduler whose notifier has a webhook, or none
InitNotify ==
    /\ programs = {}
    /\ scrape_logs = <<>>
    /\ clock = 0
    /\ call = NoCall
    /\ run = [t \in Threads |-> IdleRun]
    /\ returned = NothingReturned
    /\ sched = [t \in Threads |-> IdleSched]
    /\ sent = <<>>
    /\ objs = <<>>
    /\ \E url \in {"", "https://discord.com/api/webhooks/1"} :
          scheduler = [NewScheduler EXCEPT !.webhook_url = url]
    /\ bg = NoLoop
    /\ conn = [t \in Threads |-> ClosedConn]
    /\ adapter = IdleAdapter

\* SpecNotify: run_scraper on two threads, with and without a webhook
SpecNotify == InitNotify /\ [][NextSched]_vars

\* thread t is inside scraper.run() for its platform
Executing(t) == sched[t].pc = "run" /\ run[t].pc \notin {"idle", "done"}

\* C4: at most one run per source is in flight at any time.
C4_OneRunPerSource ==
    \A t1, t2 \in Threads :
        (t1 /= t2 /\ Executing(t1) /\ Executing(t2))
            => sched[t1].platform /= sched[t2].platform

\* the call notifier.send_batch_summary(new, updated, platform) for a log
SummaryCall(log, platform) ==
    [new |-> log.programs_new, updated |-> log.programs_updated,
     platform |-> platform]

\* C15: run_scraper calls send_batch_summary(new, updated, platform) after a run
\* exactly when the run succeeded and new > 0 or updated > 0; nothing else
\* calls it.
C15_SummaryForwarding ==
    [][/\ sent' /= sent
            => \E t \in Threads :
                  /\ sched[t].pc = "run" /\ sched'[t].pc = "idle"
                  /\ run[t].pc = "done"
       /\ \A t \in Threads :
            (sched[t].pc = "run" /\ sched'[t].pc = "idle")
               => LET log == run[t].log
                  IN  IF log.success
                         /\ (log.programs_new > 0 \/ log.programs_updated > 0)
                      THEN sent' = Append(sent, SummaryCall(log, sched[t].platform))
                      ELSE sent' = sent]_vars

\* a run with one new program was forwarded, a later failed run was not
C15_Witness ==
    /\ Len(scrape_logs) = 2
    /\ scrape_logs[1].success /\ scrape_logs[1].programs_new = 1
    /\ ~scrape_logs[2].success
    /\ \A t \in Threads : sched[t].pc = "idle" /\ run[t].pc = "idle"
    /\ sent = <<SummaryCall(scrape_logs[1], "hackerone")>>

\* C22: send_batch_summary never raises and returns False when no webhook is
\* configured; whatever it returns, run_scraper returns the log of the run,
\* and the step from the end of the run to the return of run_scraper leaves
\* the tables programs and scrape_logs as they are.
C22_NotificationNeverFatal ==
    [][\A t \in Threads :
          (sched[t].pc = "run" /\ sched'[t].pc = "idle")
             => /\ sched'[t].summary \in {"none", "true", "false"}
                /\ (ShouldNotify(run[t].log) /\ scheduler.webhook_url = "")
                      => sched'[t].summary = "false"
                /\ sched'[t].result = <<run[t].log>>
                /\ programs' = programs
                /\ scrape_logs' = scrape_logs]_vars

\* with a webhook configured, the delivery of the summary of a run with one
\* new program failed: send_batch_summary returned False and run_scraper
\* returned the log
C22_Witness ==
    /\ scheduler.webhook_url /= ""
    /\ \E t \in Threads :
          /\ sched[t].pc = "idle"
          /\ sched[t].summary = "false"
          /\ sched[t].result = <<scrape_logs[1]>>
    /\ Len(scrape_logs) = 1
    /\ scrape_logs[1].success /\ scrape_logs[1].programs_new = 1
    /\ Cardinality(programs) = 1
    /\ sent = <<SummaryCall(scrape_logs[1], "hackerone")>>

----------------------------------------------------------------------------
(* scheduler.py: start_background_loop, its thread, stop and main            *)
(*                                                                           *)
(* bg.main: "init" before start_background_loop, "serving" while the main   *)
(* thread waits, "stopped" after stop(), "exited" after the process ended.  *)
(* bg.pc: the loop thread; "none" not created, "start" at line 91, "pass"   *)
(* inside run_all_scrapers, "while" at line 93, "sleep" at line 94, "if" at *)
(* line 95, "exit" returned from loop(), "killed" when the process ended    *)
(* while the thread, a daemon (line 98), was still alive.                   *)
(* bg.passes, bg.sleeps count the calls of run_all_scrapers and the waits   *)
(* that ended; bg.mark is the length of scrape_logs when the pass began.    *)
(* The variable platform of the for loop of run_all_scrapers is             *)
(* sched["loop"].platform, "" before the first iteration.                   *)

LoopThread == "loop"

\* self.scrapers with the one scraper of line 32, or with a second one added
\* at the place line 33 names
Registries == {<<"hackerone">>, <<"hackerone", "projectdiscovery">>}

InitLoop ==
    /\ programs = {}
    /\ scrape_logs = <<>>
    /\ clock = 0
    /\ call = NoCall
    /\ run = [t \in Threads |-> IdleRun]
    /\ returned = NothingReturned
    /\ sched = [t \in Threads |-> IdleSched]
    /\ sent = <<>>
    /\ objs = <<>>
    /\ \E registry \in Registries :
          scheduler = [NewScheduler EXCEPT !.scrapers = registry]
    /\ bg = NoLoop
    /\ conn = [t \in Threads |-> ClosedConn]
    /\ adapter = IdleAdapter

\* the loop thread exists and the process has not ended
Alive == bg.pc \notin {"none", "exit", "killed"}

\* main(), lines 112-113: start_background_loop() sets running and starts the
\* thread
StartBackgroundLoop ==
    /\ bg.main = "init"
    /\ scheduler' = [scheduler EXCEPT !.running = TRUE]
    /\ bg' = [bg EXCEPT !.main = "serving", !.pc = "start"]
    /\ UNCHANGED <<programs, scrape_logs, clock, call, run, returned, sched,
                   sent, objs, conn, adapter>>

\* the call of run_all_scrapers: a fresh for loop
BeginPass ==
    /\ bg' = [bg EXCEPT !.pc = "pass", !.passes = @ + 1,
                        !.mark = Len(scrape_logs)]
    /\ sched' = [sched EXCEPT ![LoopThread] = IdleSched]
    /\ UNCHANGED <<programs, scrape_logs, clock, call, run, returned, sent,
                   objs, scheduler, conn, adapter>>

\* line 91: run immediately on startup
FirstPass ==
    /\ bg.pc = "start"
    /\ BeginPass

\* index in self.scrapers of the platform the for loop handled last
RECURSIVE IndexOf(_, _)
IndexOf(seq, x) ==
    IF seq = <<>> THEN 0
    ELSE IF seq[Len(seq)] = x THEN Len(seq)
    ELSE IndexOf(SubSeq(seq, 1, Len(seq) - 1), x)

PassOverAfterFirst == sched[LoopThread].platform /= ""

\* line 79: the for loop has handled every platform of self.scrapers
PassOver ==
    IndexOf(scheduler.scrapers, sched[LoopThread].platform)
        = Len(scheduler.scrapers)

\* lines 79-80: the next iteration calls run_scraper(platform)
PassRunScraper ==
    /\ bg.pc = "pass"
    /\ ~PassOver
    /\ RunScraper(LoopThread,
          scheduler.scrapers[IndexOf(scheduler.scrapers,
                                     sched[LoopThread].platform) + 1])

\* line 81: run_all_scrapers returns to the loop
PassEnds ==
    /\ bg.pc = "pass"
    /\ sched[LoopThread].pc = "idle"
    /\ PassOver
    /\ bg' = [bg EXCEPT !.pc = "while"]
    /\ UNCHANGED <<programs, scrape_logs, clock, call, run, returned, sched,
                   sent, objs, scheduler, conn, adapter>>

WhileBranchNoSleep(running) == IF running THEN "if" ELSE "exit"

\* line 93: while self.running
WhileBranch(running) == IF running THEN "sleep" ELSE "exit"

WhileTest ==
    /\ bg.pc = "while"
    /\ bg' = [bg EXCEPT !.pc = WhileBranch(scheduler.running)]
    /\ UNCHANGED <<programs, scrape_logs, clock, call, run, returned, sched,
                   sent, objs, scheduler, conn, adapter>>

\* line 94: time.sleep(SCRAPE_INTERVAL_MINUTES * 60) returns
SleepEnds ==
    /\ bg.pc = "sleep"
    /\ bg.sleeps < MaxSleeps
    /\ bg' = [bg EXCEPT !.pc = "if", !.sleeps = @ + 1]
    /\ UNCHANGED <<programs, scrape_logs, clock, call, run, returned, sched,
                   sent, objs, scheduler, conn, adapter>>

\* lines 95-96: check again after sleep, then the next pass
NextPass ==
    /\ bg.pc = "if"
    /\ scheduler.running
    /\ BeginPass

\* line 95 with running false: back to the while test
SkipPass ==
    /\ bg.pc = "if"
    /\ ~scheduler.running
    /\ bg' = [bg EXCEPT !.pc = "while"]
    /\ UNCHANGED <<programs, scrape_logs, clock, call, run, returned, sched,
                   sent, objs, scheduler, conn, adapter>>

\* lines 102-105, called from main() line 121 (run.py line 36)
Stop ==
    /\ bg.main = "serving"
    /\ scheduler' = [scheduler EXCEPT !.running = FALSE]
    /\ bg' = [bg EXCEPT !.main = "stopped"]
    /\ UNCHANGED <<programs, scrape_logs, clock, call, run, returned, sched,
                   sent, objs, conn, adapter>>

\* main() returns after stop() (run.py: sys.exit(0)); the interpreter ends and
\* with it the loop thread, which is a daemon thread and is not joined
MainExits ==
    /\ bg.main = "stopped"
    /\ bg' = [bg EXCEPT !.main = "exited",
                        !.pc = IF Alive THEN "killed" ELSE @]
    /\ UNCHANGED <<programs, scrape_logs, clock, call, run, returned, sched,
                   sent, objs, scheduler, conn, adapter>>

\* run_scraper on the loop thread (lines 43-74), as long as the thread lives
LoopRunStart == Alive /\ SchedRunStart(LoopThread)

LoopScrapeReturns ==
    Alive /\ \E list \in SchedBatches : ScrapeReturns(LoopThread, list)

LoopScrapeRaises == Alive /\ ScrapeRaises(LoopThread)

LoopUpsertNext == Alive /\ UpsertNext(LoopThread)

LoopLoopEnd == Alive /\ LoopEnd(LoopThread)

LoopLogScrape == Alive /\ LogScrape(LoopThread)

LoopAfterRun == Alive /\ AfterRun(LoopThread)

NextLoop ==
    \/ StartBackgroundLoop
    \/ Stop
    \/ MainExits
    \/ FirstPass
    \/ PassRunScraper
    \/ LoopRunStart
    \/ LoopScrapeReturns
    \/ LoopScrapeRaises
    \/ LoopUpsertNext
    \/ LoopLoopEnd
    \/ LoopLogScrape
    \/ LoopAfterRun
    \/ PassEnds
    \/ WhileTest
    \/ SleepEnds
    \/ NextPass
    \/ SkipPass

SpecLoop == InitLoop /\ [][NextLoop]_vars

\* C16: start_background_loop sets running (it was false) and creates the loop
\* thread at its first pass; the first pass begins before any wait, and every
\* later pass begins directly after a wait that ended, one wait per pass.
C16_StartRunsPassFirst ==
    [][/\ (bg.pc = "none" /\ bg'.pc /= "none")
            => /\ ~scheduler.running /\ scheduler'.running
               /\ bg'.pc = "start" /\ bg'.passes = 0 /\ bg'.sleeps = 0
       /\ bg.pc = "start" => bg'.pc \in {"start", "pass", "killed"}
       /\ bg'.passes /= bg.passes
            => /\ bg'.passes = bg.passes + 1 /\ bg'.pc = "pass"
               /\ \/ bg.pc = "start" /\ bg.passes = 0 /\ bg.sleeps = 0
                  \/ bg.pc = "if" /\ bg.passes >= 1 /\ bg.sleeps >= bg.passes
       /\ bg'.sleeps /= bg.sleeps
            => /\ bg'.sleeps = bg.sleeps + 1
               /\ bg.passes >= 1
               /\ bg.pc = "sleep" /\ bg'.pc = "if"]_vars

\* the second pass has begun, after one wait
C16_Witness ==
    /\ bg.pc = "pass"
    /\ bg.passes = 2 /\ bg.sleeps = 1
    /\ Len(scrape_logs) = Len(scheduler.scrapers)
    /\ sched[LoopThread].pc = "run"

\* C17: after stop() no run of the loop thread is cut off in flight.
C17_InFlightRunCompletes ==
    ~(bg.pc = "killed" /\ Executing(LoopThread))

\* a run of the loop thread came back with success = FALSE
FailedRunReturns ==
    /\ sched[LoopThread].pc = "run" /\ sched'[LoopThread].pc = "idle"
    /\ ~run[LoopThread].log.success

\* C19: a failed run leaves the loop thread and the scheduler as they are, so
\* the for loop goes on; a pass ends only after every registered source has
\* had its run logged in that pass, in order; the thread returns from loop()
\* only at the while test with running false.
C19_SourceIndependence ==
    [][/\ FailedRunReturns => bg' = bg /\ scheduler' = scheduler
       /\ (bg.pc = "pass" /\ bg'.pc /= "pass")
            => \/ bg'.pc = "killed"
               \/ /\ bg'.pc = "while"
                  /\ Len(scrape_logs) = bg.mark + Len(scheduler.scrapers)
                  /\ \A i \in DOMAIN scheduler.scrapers :
                        scrape_logs[bg.mark + i].platform = scheduler.scrapers[i]
       /\ (bg.pc /= "exit" /\ bg'.pc = "exit")
            => bg.pc = "while" /\ ~scheduler.running]_vars

\* the run of the first source failed in its fetch, the run of the second
\* source was executed in the same pass, and the loop went on to its wait
C19_Witness ==
    /\ Len(scheduler.scrapers) = 2
    /\ Len(scrape_logs) = 2
    /\ ~scrape_logs[1].success /\ scrape_logs[1].platform = "hackerone"
    /\ scrape_logs[2].success /\ scrape_logs[2].platform = "projectdiscovery"
    /\ scrape_logs[2].programs_new = 1
    /\ bg.pc = "sleep" /\ bg.passes = 1

----------------------------------------------------------------------------
(* SpecStarts: start_background_loop and stop called in any order on one     *)
(* scheduler. Every call of start_background_loop creates a thread (lines   *)
(* 98-99); the scheduler keeps no reference to it and no call joins it. Here *)
(* bg.loops[t] is the position of thread t in loop() (the values of bg.pc   *)
(* above) with the number of its waits that ended, and bg.stops counts the  *)
(* calls of stop.                                                           *)

MaxStops == 2

NoLoops ==
    [stops |-> 0, loops |-> [t \in Threads |-> [pc |-> "none", sleeps |-> 0]]]

InitStarts ==
    /\ programs = {}
    /\ scrape_logs = <<>>
    /\ clock = 0
    /\ call = NoCall
    /\ run = [t \in Threads |-> IdleRun]
    /\ returned = NothingReturned
    /\ sched = [t \in Threads |-> IdleSched]
    /\ sent = <<>>
    /\ objs = <<>>
    /\ scheduler = NewScheduler
    /\ bg = NoLoops
    /\ conn = [t \in Threads |-> ClosedConn]
    /\ adapter = IdleAdapter

\* lines 83-100: self.running = True; threading.Thread(target=loop).start()
StartCall(t) ==
    /\ bg.loops[t].pc = "none"
    /\ scheduler' = [scheduler EXCEPT !.running = TRUE]
    /\ bg' = [bg EXCEPT !.loops[t].pc = "start"]
    /\ UNCHANGED <<programs, scrape_logs, clock, call, run, returned, sched,
                   sent, objs, conn, adapter>>

\* lines 102-105: self.running = False
StopCall ==
    /\ bg.stops < MaxStops
    /\ scheduler' = [scheduler EXCEPT !.running = FALSE]
    /\ bg' = [bg EXCEPT !.stops = @ + 1]
    /\ UNCHANGED <<programs, scrape_logs, clock, call, run, returned, sched,
                   sent, objs, conn, adapter>>

\* thread t calls run_all_scrapers: a fresh for loop
ThreadBeginPass(t) ==
    /\ bg' = [bg EXCEPT !.loops[t].pc = "pass"]
    /\ sched' = [sched EXCEPT ![t] = IdleSched]
    /\ UNCHANGED <<programs, scrape_logs, clock, call, run, returned, sent,
                   objs, scheduler, conn, adapter>>

\* line 91: run immediately on startup
ThreadFirstPass(t) ==
    /\ bg.loops[t].pc = "start"
    /\ ThreadBeginPass(t)

\* line 79: the for loop of thread t has handled every platform
ThreadPassOver(t) ==
    IndexOf(scheduler.scrapers, sched[t].platform) = Len(scheduler.scrapers)

\* lines 79-80: the next iteration calls run_scraper(platform)
ThreadRunScraper(t) ==
    /\ bg.loops[t].pc = "pass"
    /\ ~ThreadPassOver(t)
    /\ RunScraper(t, scheduler.scrapers[IndexOf(scheduler.scrapers,
                                                sched[t].platform) + 1])

\* lines 43-74: run_scraper on thread t
ThreadRun(t) ==
    /\ bg.loops[t].pc = "pass"
    /\ \/ SchedRunStart(t)
       \/ \E list \in SchedBatches : ScrapeReturns(t, list)
       \/ ScrapeRaises(t)
       \/ UpsertNext(t)
       \/ LoopEnd(t)
       \/ LogScrape(t)
       \/ AfterRun(t)

\* line 81: run_all_scrapers returns to the loop
ThreadPassEnds(t) ==
    /\ bg.loops[t].pc = "pass"
    /\ sched[t].pc = "idle"
    /\ ThreadPassOver(t)
    /\ bg' = [bg EXCEPT !.loops[t].pc = "while"]
    /\ UNCHANGED <<programs, scrape_logs, clock, call, run, returned, sched,
                   sent, objs, scheduler, conn, adapter>>

\* line 93: while self.running
ThreadWhileTest(t) ==
    /\ bg.loops[t].pc = "while"
    /\ bg' = [bg EXCEPT !.loops[t].pc = WhileBranch(scheduler.running)]
    /\ UNCHANGED <<programs, scrape_logs, clock, call, run, returned, sched,
                   sent, objs, scheduler, conn, adapter>>

\* line 94: time.sleep(SCRAPE_INTERVAL_MINUTES * 60) returns
ThreadSleepEnds(t) ==
    /\ bg.loops[t].pc = "sleep"
    /\ bg.loops[t].sleeps < MaxSleeps
    /\ bg' = [bg EXCEPT !.loops[t].pc = "if", !.loops[t].sleeps = @ + 1]
    /\ UNCHANGED <<programs, scrape_logs, clock, call, run, returned, sched,
                   sent, objs, scheduler, conn, adapter>>

\* lines 95-96: check again after sleep, then the next pass
ThreadNextPass(t) ==
    /\ bg.loops[t].pc = "if"
    /\ scheduler.running
    /\ ThreadBeginPass(t)

\* line 95 with running false: back to the while test
ThreadSkipPass(t) ==
    /\ bg.loops[t].pc = "if"
    /\ ~scheduler.running
    /\ bg' = [bg EXCEPT !.loops[t].pc = "while"]
    /\ UNCHANGED <<programs, scrape_logs, clock, call, run, returned, sched,
                   sent, objs, scheduler, conn, adapter>>

NextStarts ==
    \/ StopCall
    \/ \E t \in Threads :
          \/ StartCall(t)
          \/ ThreadFirstPass(t)
          \/ ThreadRunScraper(t)
          \/ ThreadRun(t)
          \/ ThreadPassEnds(t)
          \/ ThreadWhileTest(t)
          \/ ThreadSleepEnds(t)
          \/ ThreadNextPass(t)
          \/ ThreadSkipPass(t)

SpecStarts == InitStarts /\ [][NextStarts]_vars

\* the threads that are inside loop(), and those inside run_all_scrapers
LoopsAlive == {t \in Threads : bg.loops[t].pc \notin {"none", "exit"}}

Dispatching == {t \in Threads : bg.loops[t].pc = "pass"}

\* C32: after any sequence of start_background_loop and stop calls at most
\* one thread of the scheduler is inside loop(), and no two threads are inside
\* run_all_scrapers at the same time.
C32_SingleLoop ==
    /\ Cardinality(LoopsAlive) <= 1
    /\ Cardinality(Dispatching) <= 1

----------------------------------------------------------------------------
(* SpecConc: upsert_program called by two threads (or processes), each on   *)
(* its own connection (get_connection, line 91). The SELECT of line 97 runs *)
(* outside a transaction; sqlite3 opens one at the INSERT or UPDATE, which  *)
(* line 184 commits. conn[t] holds the locals of the call between the two.  *)

\* the records two writers send: no record that fails on its own
ConcFeed == RunFeed \ {Program(<<>>, NullName)}

\* lines 91-101: connect, now = utcnow(), SELECT, fetchone
SelectExisting(t, p) ==
    /\ conn[t].pc \in {"closed", "returned"}
    /\ conn[t].calls < MaxCalls
    /\ \E now \in Readings(clock) :
          /\ clock' = now
          /\ conn' = [conn EXCEPT ![t] =
                [pc |-> "selected", calls |-> conn[t].calls + 1, program |-> p,
                 now |-> now,
                 existing |-> LET found == SelectById(programs, p.id)
                              IN  IF found = {} THEN <<>>
                                  ELSE <<CHOOSE r \in found : TRUE>>]]
    /\ UNCHANGED <<programs, scrape_logs, call, run, returned, sched, sent,
                   objs, scheduler, bg, adapter>>

\* what the call returns, or that it raised
Returned(c, is_new, is_updated, raised) ==
    [pc |-> "returned", calls |-> c.calls, program |-> c.program,
     is_new |-> is_new, is_updated |-> is_updated, raised |-> raised]

\* lines 103-128 and 184-187: INSERT, commit, return (True, False); the
\* INSERT raises IntegrityError when the table does not allow the row
InsertNew(t) ==
    /\ conn[t].pc = "selected"
    /\ conn[t].existing = <<>>
    /\ \E t1 \in Readings(clock) : \E t2 \in Readings(t1) : \E t3 \in Readings(t2) :
          LET row == InsertedRow(conn[t].program, t1, t2, t3)
              ok == ConstraintsAllow(programs, row)
          IN  /\ programs' = IF ok THEN programs \cup {row} ELSE programs
              /\ clock' = t3
              /\ conn' = [conn EXCEPT ![t] = Returned(conn[t], TRUE, FALSE, ~ok)]
    /\ UNCHANGED <<scrape_logs, call, run, returned, sched, sent, objs,
                   scheduler, bg, adapter>>

\* lines 130-187: is_updated from the row that was read, UPDATE ... WHERE id,
\* commit, return (False, is_updated); the columns outside SET keep what the
\* table holds now
UpdateExisting(t) ==
    /\ conn[t].pc = "selected"
    /\ conn[t].existing /= <<>>
    /\ LET p == conn[t].program
           read == conn[t].existing[1]
           is_updated == IsUpdated(read, p)
           stored == RowOf(programs, p.id)
           row == [UpdatedRow(stored, p, is_updated, conn[t].now) EXCEPT
                     !.last_updated =
                         LastUpdatedValue(read, is_updated, conn[t].now)]
       IN  /\ programs' = (programs \ {stored}) \cup {row}
           /\ conn' = [conn EXCEPT ![t] = Returned(conn[t], FALSE, is_updated, FALSE)]
    /\ UNCHANGED <<scrape_logs, clock, call, run, returned, sched, sent, objs,
                   scheduler, bg, adapter>>

NextConc ==
    \E t \in Threads :
        \/ \E p \in ConcFeed : SelectExisting(t, p)
        \/ InsertNew(t)
        \/ UpdateExisting(t)

SpecConc == Init /\ [][NextConc]_vars

\* C18: between the SELECT of a call and its write no other call changes the
\* row of that identity, and no call raises.
C18_UpsertAtomicPerIdentity ==
    \A t \in Threads :
        /\ conn[t].pc = "selected"
              => LET found == SelectById(programs, conn[t].program.id)
                 IN  IF conn[t].existing = <<>> THEN found = {}
                     ELSE found = {conn[t].existing[1]}
        /\ conn[t].pc = "returned" => ~conn[t].raised

----------------------------------------------------------------------------
(* scrapers/hackerone.py and scrapers/projectdiscovery.py: _parse_program    *)
(*                                                                           *)
(* A JSON value the adapters inspect is a record: null, a boolean, a number, *)
(* a string of characters or a list. A key of a JSON object is a sequence   *)
(* of length 0 (the key is absent) or 1 (its value).                        *)

JNull == [kind |-> "null", b |-> FALSE, n |-> 0, s |-> <<>>, items |-> <<>>]
JBool(b) == [kind |-> "bool", b |-> b, n |-> 0, s |-> <<>>, items |-> <<>>]
JNum(n) == [kind |-> "num", b |-> FALSE, n |-> n, s |-> <<>>, items |-> <<>>]
JStr(s) == [kind |-> "str", b |-> FALSE, n |-> 0, s |-> s, items |-> <<>>]
JList(items) == [kind |-> "list", b |-> FALSE, n |-> 0, s |-> <<>>, items |-> items]

\* dict.get(key, default)
Get(key, default) == IF key = <<>> THEN default ELSE key[1]

\* the truth value Python gives a JSON value
Truthy(v) ==
    CASE v.kind = "null" -> FALSE
      [] v.kind = "bool" -> v.b
      [] v.kind = "num" -> v.n /= 0
      [] v.kind = "str" -> v.s /= <<>>
      [] v.kind = "list" -> v.items /= <<>>

Digits == <<"0", "1", "2", "3", "4", "5", "6", "7", "8", "9">>

IsDigit(c) == \E d \in 1..10 : Digits[d] = c

DigitValue(c) == (CHOOSE d \in 1..10 : Digits[d] = c) - 1

AllDigits(s) == s /= <<>> /\ \A i \in 1..Len(s) : IsDigit(s[i])

RECURSIVE IntOfDigits(_)
\* int(s) for a string of decimal digits
IntOfDigits(s) ==
    IF s = <<>> THEN 0
    ELSE 10 * IntOfDigits(SubSeq(s, 1, Len(s) - 1)) + DigitValue(s[Len(s)])

\* int(v) raises ValueError for a string that is not a number
IntRaises(v) == v.kind = "str" /\ ~AllDigits(v.s)

\* int(v) for a truthy JSON value
IntValue(v) ==
    CASE v.kind = "num" -> v.n
      [] v.kind = "bool" -> 1
      [] v.kind = "str" -> IntOfDigits(v.s)

\* sub in s
Contains(s, sub) ==
    \E i \in 0..(Len(s) - Len(sub)) : SubSeq(s, i + 1, i + Len(sub)) = sub

\* the characters of the strings the model uses as handles and names
Chars(str) ==
    CASE str = "a" -> <<"a">>
      [] str = "A" -> <<"A">>
      [] str = "b" -> <<"b">>
      [] str = "" -> <<>>

\* what a function returns, or that it raised
Raised == [raised |-> TRUE, program |-> <<>>]
Parsed(p) == [raised |-> FALSE, program |-> <<p>>]

\* get_platform_name() of the two adapters
HackerOneName == <<"h", "a", "c", "k", "e", "r", "o", "n", "e">>
ProjectDiscoveryName ==
    <<"p", "r", "o", "j", "e", "c", "t", "d", "i", "s", "c", "o", "v", "e", "r", "y">>

\* f"https://hackerone.com/{handle}"
H1Url(handle) ==
    CASE handle = "a" -> "https://hackerone.com/a"
      [] handle = "A" -> "https://hackerone.com/A"
      [] handle = "b" -> "https://hackerone.com/b"
      [] handle = "" -> "https://hackerone.com/"

\* a node of the directory: the keys _parse_program reads (every node of the
\* model has a handle; offers_bounties, when present, is a boolean)
Node(handle, name, offers_bounties, base_bounty, submission_state) ==
    [handle |-> handle, name |-> name, offers_bounties |-> offers_bounties,
     base_bounty |-> base_bounty, submission_state |-> submission_state,
     currency |-> <<>>]

\* HackerOneScraper._parse_program(node)
H1ParseProgram(node) ==
    LET handle == node.handle
        name == Get(node.name, handle)
        offers_bounties == Get(node.offers_bounties, JBool(FALSE))
        submission_state == Get(node.submission_state, "")
        vdp_only == ~Truthy(offers_bounties)
        base_bounty == Get(node.base_bounty, JNull)
        has_min == Truthy(base_bounty) /\ Truthy(offers_bounties)
    IN  IF has_min /\ IntRaises(base_bounty) THEN Raised
        ELSE Parsed(Program(<<>>,
               [platform |-> HackerOneName, name |-> name,
                slug |-> Chars(handle), url |-> H1Url(handle),
                bounty_min |-> IF has_min THEN Some(IntValue(base_bounty))
                               ELSE None,
                bounty_max |-> None,
                currency |-> Get(node.currency, "USD"),
                assets |-> <<>>, asset_types |-> <<>>, managed |-> FALSE,
                vdp_only |-> vdp_only,
                accepts_submissions |-> (submission_state = "open"),
                offers_bounties |-> Truthy(offers_bounties)]))

\* lines 94-95: node = edge['node'] raises KeyError for an edge without the
\* key; then _parse_program(node)
H1ParseEdge(edge) ==
    IF edge.node = <<>> THEN Raised ELSE H1ParseProgram(edge.node[1])

\* _detect_platform: the domains it looks for and the platform it returns,
\* in the order of the if/elif chain
PlatformDomains ==
    <<[domain |-> HackerOneName \o <<".", "c", "o", "m">>,
       platform |-> HackerOneName],
      [domain |-> <<"b", "u", "g", "c", "r", "o", "w", "d", ".", "c", "o", "m">>,
       platform |-> <<"b", "u", "g", "c", "r", "o", "w", "d">>],
      [domain |-> <<"i", "n", "t", "i", "g", "r", "i", "t", "i", ".", "c", "o", "m">>,
       platform |-> <<"i", "n", "t", "i", "g", "r", "i", "t", "i">>],
      [domain |-> <<"y", "e", "s", "w", "e", "h", "a", "c", "k", ".", "c", "o", "m">>,
       platform |-> <<"y", "e", "s", "w", "e", "h", "a", "c", "k">>],
      [domain |-> <<"i", "m", "m", "u", "n", "e", "f", "i", ".", "c", "o", "m">>,
       platform |-> <<"i", "m", "m", "u", "n", "e", "f", "i">>],
      [domain |-> <<"c", "o", "d", "e", "4", "r", "e", "n", "a", ".", "c", "o", "m">>,
       platform |-> <<"c", "o", "d", "e", "4", "r", "e", "n", "a">>],
      [domain |-> <<"h", "u", "n", "t", "r", ".", "d", "e", "v">>,
       platform |-> <<"h", "u", "n", "t", "r">>],
      [domain |-> <<"h", "u", "n", "t", "r", ".", "c", "o", "m">>,
       platform |-> <<"h", "u", "n", "t", "r">>],
      [domain |-> <<"a", "l", "g", "o", "r", "a", ".", "i", "o">>,
       platform |-> <<"a", "l", "g", "o", "r", "a">>]>>

\* urlparse(url) for the URLs of the model: netloc and path
UrlParse(url) ==
    CASE url = "https://hackerone.com/a" ->
            [netloc |-> HackerOneName \o <<".", "c", "o", "m">>,
             path |-> <<"/", "a">>]
      [] url = "https://hackerone.com/A" ->
            [netloc |-> HackerOneName \o <<".", "c", "o", "m">>,
             path |-> <<"/", "A">>]
      [] url = "https://hackerone.com" ->
            [netloc |-> HackerOneName \o <<".", "c", "o", "m">>, path |-> <<>>]
      [] url = "https://bugcrowd.com/b" ->
            [netloc |-> <<"b", "u", "g", "c", "r", "o", "w", "d", ".", "c", "o", "m">>,
             path |-> <<"/", "b">>]
      [] url = "https://example.org/x/b/" ->
            [netloc |-> <<"e", "x", "a", "m", "p", "l", "e", ".", "o", "r", "g">>,
             path |-> <<"/", "x", "/", "b", "/">>]

\* ProjectDiscoveryScraper._detect_platform(url)
DetectPlatform(url) ==
    IF url = "" THEN <<"u", "n", "k", "n", "o", "w", "n">>
    ELSE LET domain == Lower(UrlParse(url).netloc)
             hits == {i \in DOMAIN PlatformDomains :
                         Contains(domain, PlatformDomains[i].domain)}
         IN  IF hits = {} THEN <<"o", "t", "h", "e", "r">>
             ELSE PlatformDomains[CHOOSE i \in hits : \A j \in hits : i <= j].platform

RECURSIVE LStrip(_, _)
LStrip(s, c) == IF s /= <<>> /\ Head(s) = c THEN LStrip(Tail(s), c) ELSE s

RECURSIVE RStrip(_, _)
RStrip(s, c) ==
    IF s /= <<>> /\ s[Len(s)] = c THEN RStrip(SubSeq(s, 1, Len(s) - 1), c) ELSE s

\* s.strip(c)
Strip(s, c) == RStrip(LStrip(s, c), c)

RECURSIVE LastPart(_)
\* s.split('/')[-1]
LastPart(s) ==
    IF \E i \in 1..Len(s) : s[i] = "/"
    THEN LastPart(SubSeq(s, (CHOOSE i \in 1..Len(s) :
                                /\ s[i] = "/"
                                /\ \A j \in 1..(i - 1) : s[j] /= "/") + 1, Len(s)))
    ELSE s

\* [a-z0-9]
IsLowerAlnum(c) ==
    \/ IsDigit(c)
    \/ c \in {"a", "b", "c", "d", "e", "f", "g", "h", "i", "j", "k", "l", "m",
              "n", "o", "p", "q", "r", "s", "t", "u", "v", "w", "x", "y", "z"}

RECURSIVE SubNonAlnum(_, _)
\* re.sub(r'[^a-z0-9]+', '-', s); in_run: the previous character was replaced
SubNonAlnum(s, in_run) ==
    IF s = <<>> THEN <<>>
    ELSE IF IsLowerAlnum(Head(s))
         THEN <<Head(s)>> \o SubNonAlnum(Tail(s), FALSE)
         ELSE (IF in_run THEN <<>> ELSE <<"-">>) \o SubNonAlnum(Tail(s), TRUE)

\* ProjectDiscoveryScraper._generate_slug(url, name)
GenerateSlug(url, name) ==
    IF url = ""
    THEN Strip(SubNonAlnum(Lower(Chars(name)), FALSE), "-")
    ELSE LET path == Strip(UrlParse(url).path, "/")
             slug == Strip(SubNonAlnum(Lower(LastPart(path)), FALSE), "-")
         IN  IF slug = <<>> THEN <<"u", "n", "k", "n", "o", "w", "n">> ELSE slug

RECURSIVE MatchEnd(_, _)
\* the end of the longest match of \d+(?:,\d+)* that covers the digit at j
MatchEnd(s, j) ==
    IF j + 1 <= Len(s) /\ IsDigit(s[j + 1]) THEN MatchEnd(s, j + 1)
    ELSE IF j + 2 <= Len(s) /\ s[j + 1] = "," /\ IsDigit(s[j + 2])
         THEN MatchEnd(s, j + 2)
         ELSE j

\* a.replace(',', '')
NoCommas(s) == SelectSeq(s, LAMBDA c : c /= ",")

RECURSIVE Amounts(_, _)
\* [int(a.replace(',', '')) for a in re.findall(r'\$(\d+(?:,\d+)*)', s)],
\* scanning from position i
Amounts(s, i) ==
    IF i > Len(s) THEN <<>>
    ELSE IF s[i] = "$" /\ i + 1 <= Len(s) /\ IsDigit(s[i + 1])
         THEN LET e == MatchEnd(s, i + 1)
              IN  <<IntOfDigits(NoCommas(SubSeq(s, i + 1, e)))>>
                      \o Amounts(s, e + 1)
         ELSE Amounts(s, i + 1)

\* min(amounts), max(amounts)
MinOf(amounts) ==
    CHOOSE m \in {amounts[i] : i \in DOMAIN amounts} :
        \A i \in DOMAIN amounts : m <= amounts[i]
MaxOf(amounts) ==
    CHOOSE m \in {amounts[i] : i \in DOMAIN amounts} :
        \A i \in DOMAIN amounts : m >= amounts[i]

\* seq[:n]
FirstN(seq, n) == SubSeq(seq, 1, IF Len(seq) < n THEN Len(seq) ELSE n)

\* ProjectDiscoveryScraper._detect_asset_types(domains) for a list; the order
\* of list(types) is the order of a Python set, the model lists api, mobile,
\* web
DetectAssetTypes(domains) ==
    LET first == FirstN(domains, 10)
        SomeDomain(test(_)) == \E i \in DOMAIN first : test(first[i])
        api(d) == \/ Contains(Lower(d), <<"a", "p", "i", ".">>)
                  \/ Contains(Lower(d), <<"/", "a", "p", "i">>)
        mobile(d) == \/ Contains(Lower(d), <<"a", "n", "d", "r", "o", "i", "d">>)
                     \/ Contains(Lower(d), <<"i", "o", "s">>)
                     \/ Contains(Lower(d), <<"m", "o", "b", "i", "l", "e">>)
                     \/ Contains(Lower(d), <<"a", "p", "p">>)
        web(d) == \/ FirstN(d, 4) = <<"h", "t", "t", "p">>
                  \/ Contains(d, <<".">>)
        types == (IF SomeDomain(api) THEN <<<<"a", "p", "i">>>> ELSE <<>>)
                    \o (IF SomeDomain(mobile) THEN <<<<"m", "o", "b", "i", "l", "e">>>>
                        ELSE <<>>)
                    \o (IF SomeDomain(web) THEN <<<<"w", "e", "b">>>> ELSE <<>>)
    IN  IF types = <<>> THEN <<<<"w", "e", "b">>>> ELSE types

PDAssetsUncapped(domains) == domains.items

\* domains[:20] if domains else []
PDAssets(domains) ==
    IF Truthy(domains) THEN FirstN(domains.items, 20) ELSE <<>>

\* an entry of the list: the keys _parse_program reads (every entry of the
\* model has a name)
Item(url, name, bounty, domains) ==
    [url |-> url, name |-> name, bounty |-> bounty, domains |-> domains]

\* ProjectDiscoveryScraper._parse_program(item); .lower() raises for a
\* bounty that is not a string, domains[:10] for domains that are null
PDParseProgram(item) ==
    LET url == Get(item.url, "")
        platform == DetectPlatform(url)
        slug == GenerateSlug(url, item.name)
        raw == Get(item.bounty, JStr(<<>>))
        bounty == Lower(raw.s)
        paid == Contains(bounty, <<"y", "e", "s">>) \/ Contains(bounty, <<"$">>)
        amounts == IF paid THEN Amounts(bounty, 1) ELSE <<>>
        vdp_only == /\ ~paid
                    /\ \/ Contains(bounty, <<"n", "o">>)
                       \/ Contains(bounty, <<"s", "w", "a", "g">>)
        domains == Get(item.domains, JList(<<>>))
    IN  IF raw.kind /= "str" \/ domains.kind /= "list" THEN Raised
        ELSE Parsed(Program(<<>>,
               [platform |-> platform, name |-> item.name, slug |-> slug,
                url |-> url,
                bounty_min |-> IF Len(amounts) >= 2 THEN Some(MinOf(amounts))
                               ELSE None,
                bounty_max |-> IF Len(amounts) >= 2 THEN Some(MaxOf(amounts))
                               ELSE IF Len(amounts) = 1 THEN Some(amounts[1])
                               ELSE None,
                currency |-> "USD",
                assets |-> PDAssets(domains),
                asset_types |-> DetectAssetTypes(domains.items),
                managed |-> FALSE, vdp_only |-> vdp_only,
                accepts_submissions |-> TRUE,
                offers_bounties |-> ~vdp_only]))

----------------------------------------------------------------------------
(* SpecParse: single calls of the adapters' _parse_program                   *)

RECURSIVE DecChars(_)
\* str(n)
DecChars(n) ==
    IF n < 10 THEN <<Digits[n + 1]>>
    ELSE DecChars(n \div 10) \o <<Digits[(n % 10) + 1]>>

\* a list of n distinct domains: d1, d2, ...
DomainList(n) == [i \in 1..n |-> <<"d">> \o DecChars(i)]

\* the longest list of domains an entry of the model carries
MaxDomains == 22

\* the edges a page of the directory may hold
AllEdges ==
    {[node |-> <<>>]}
      \cup {[node |-> <<Node(handle, name, offers_bounties, base_bounty,
                             submission_state)>>] :
              handle \in {"a", "A", "b"},
              name \in {<<>>, <<"A">>, <<"NULL">>},
              offers_bounties \in {<<>>, <<JBool(TRUE)>>, <<JBool(FALSE)>>},
              base_bounty \in {<<>>, <<JNull>>, <<JNum(0)>>, <<JNum(100)>>,
                               <<JStr(<<"2", "5", "0">>)>>,
                               <<JStr(<<"n", "/", "a">>)>>},
              submission_state \in {<<>>, <<"open">>, <<"paused">>}}

\* the values of the key 'bounty' in the model
BountyTexts ==
    {<<>>,
     <<"y", "e", "s">>,
     <<"$", "1", "0", "0">>,
     <<"$", "1", "0", "0", " ", "-", " ", "$", "1", ",", "5", "0", "0">>,
     <<"n", "o">>,
     <<"s", "w", "a", "g">>,
     <<"u", "n", "k", "n", "o", "w", "n">>}

\* the entries the list of ProjectDiscovery may hold
AllItems ==
    {Item(url, name, bounty, domains) :
        url \in {<<>>, <<"https://hackerone.com/a">>, <<"https://hackerone.com/A">>,
                 <<"https://hackerone.com">>, <<"https://bugcrowd.com/b">>,
                 <<"https://example.org/x/b/">>},
        name \in {"A", "b"},
        bounty \in {<<>>, <<JNull>>, <<JBool(TRUE)>>}
                      \cup {<<JStr(text)>> : text \in BountyTexts},
        domains \in {<<>>, <<JNull>>, <<JList(<<<<"a", "p", "i", ".", "d">>>>)>>}
                       \cup {<<JList(DomainList(n))>> :
                                n \in {0, 2, 20, 21, MaxDomains}}}

\* hackerone.py lines 94-95 for one edge
ParseEdge(edge) ==
    /\ objs = <<>>
    /\ objs' = <<[adapter |-> "hackerone", raw |-> edge, out |-> H1ParseEdge(edge)]>>
    /\ UNCHANGED <<programs, scrape_logs, clock, call, run, returned, sched, sent,
                   otherVars>>

\* projectdiscovery.py line 43 for one entry
ParseItem(item) ==
    /\ objs = <<>>
    /\ objs' = <<[adapter |-> "projectdiscovery", raw |-> item,
                  out |-> PDParseProgram(item)]>>
    /\ UNCHANGED <<programs, scrape_logs, clock, call, run, returned, sched, sent,
                   otherVars>>

NextParse ==
    \/ \E edge \in AllEdges : ParseEdge(edge)
    \/ \E item \in AllItems : ParseItem(item)

SpecParse == Init /\ [][NextParse]_vars

\* the call returned a Program
Produced(o) == ~o.out.raised

\* the source entry carries no bounty signal at all
NoBountySignal(o) ==
    IF o.adapter = "hackerone"
    THEN o.raw.node /= <<>> /\ o.raw.node[1].offers_bounties = <<>>
    ELSE o.raw.bounty = <<>>

\* C27: a Program normalized from an entry without any bounty signal is not
\* classified as paid (offers_bounties and not vdp_only), and is not
\* classified VDP-only either, which needs an explicit indication.
C27_NoPaidStatusFromAbsence ==
    \A i \in 1..Len(objs) :
        (Produced(objs[i]) /\ NoBountySignal(objs[i]))
           => LET p == objs[i].out.program[1]
              IN  /\ ~(p.offers_bounties /\ ~p.vdp_only)
                  /\ ~p.vdp_only

\* the list of assets the source entry carries
SourceAssets(o) ==
    IF o.adapter = "hackerone" \/ o.raw.domains = <<>> THEN <<>>
    ELSE o.raw.domains[1].items

\* C28: a Program produced by an adapter has at most 20 assets, the first 20
\* entries of the source's list in the order of the source.
C28_AssetCap ==
    \A i \in 1..Len(objs) :
        Produced(objs[i])
           => LET p == objs[i].out.program[1]
                  src == SourceAssets(objs[i])
              IN  /\ Len(p.assets) <= 20
                  /\ Len(p.assets) = IF Len(src) < 20 THEN Len(src) ELSE 20
                  /\ \A k \in 1..Len(p.assets) : p.assets[k] = src[k]

\* an entry with 22 domains was normalized to a Program with the first 20
C28_Witness ==
    /\ Len(objs) = 1
    /\ objs[1].adapter = "projectdiscovery"
    /\ Produced(objs[1])
    /\ Len(SourceAssets(objs[1])) = 22
    /\ Len(objs[1].out.program[1].assets) = 20
    /\ objs[1].out.program[1].assets[20] = <<"d", "2", "0">>

----------------------------------------------------------------------------
(* SpecAdapter: a run with the scrape_programs of the two adapters           *)
(*                                                                           *)
(* adapter.pc: "paging" inside the while loop of HackerOneScraper,          *)
(* "fetching" inside ProjectDiscoveryScraper.scrape_programs, "returned"    *)
(* after the return statement. adapter.run is the number of the run that    *)
(* called it, adapter.failed records that a request of this call raised.    *)
(* adapter.raw holds the entries the source delivered to this call, in      *)
(* order; adapter.cursor is the local variable cursor of HackerOneScraper.  *)
(* The model records the programs and entries of a call while they fit in   *)
(* MaxUpserts; adapter.truncated says that the call appended more than the  *)
(* model records, and the model does not follow such a call past its return. *)

Adapters == {"hackerone", "projectdiscovery"}

\* the number of the run that is executing
ThisRun == Len(scrape_logs) + 1

\* base.py line 54: run() calls self.scrape_programs()
CallScrapePrograms(kind) ==
    /\ run[Main].pc = "fetch"
    /\ run[Main].log.platform = kind
    /\ adapter.run < ThisRun
    /\ adapter' = [pc |-> IF kind = "hackerone" THEN "paging" ELSE "fetching",
                   kind |-> kind, run |-> ThisRun, programs |-> <<>>,
                   page |-> 1, failed |-> FALSE, cursor |-> <<>>,
                   raw |-> <<>>, truncated |-> FALSE]
    /\ UNCHANGED <<programs, scrape_logs, clock, call, run, returned, sched,
                   sent, objs, scheduler, bg, conn>>

\* the index of the first entry whose normalization raises, 0 if none does
FirstRaising(outs) ==
    IF \E i \in DOMAIN outs : outs[i].raised
    THEN CHOOSE i \in DOMAIN outs :
            outs[i].raised /\ \A j \in 1..(i - 1) : ~outs[j].raised
    ELSE 0

\* the Programs of the entries that were normalized, in order
ProgramsOf(outs) ==
    LET ok == SelectSeq(outs, LAMBDA o : ~o.raised)
    IN  [i \in DOMAIN ok |-> ok[i].program[1]]

\* hackerone.py lines 72-104: a page arrives; its edges are parsed and
\* appended one by one; an exception of edge['node'] or _parse_program
\* passes to lines 106-108, which break; no edges or no next page ends the
\* loop, otherwise cursor = endCursor, page += 1 and the loop goes on
H1Page(edges, hasNextPage, endCursor) ==
    /\ adapter.pc = "paging"
    /\ LET outs == [i \in DOMAIN edges |-> H1ParseEdge(edges[i])]
           k == FirstRaising(outs)
           appended == ProgramsOf(IF k = 0 THEN outs ELSE SubSeq(outs, 1, k - 1))
           fits == Fetched + Len(adapter.programs) + Len(appended) <= MaxUpserts
           more == edges /= <<>> /\ k = 0 /\ hasNextPage
       IN  adapter' = [adapter EXCEPT
              !.programs = IF fits /\ ~adapter.truncated THEN @ \o appended ELSE @,
              !.raw = IF fits /\ ~adapter.truncated THEN @ \o edges ELSE @,
              !.truncated = @ \/ ~fits,
              !.page = IF more /\ @ < MaxPages THEN @ + 1 ELSE @,
              !.cursor = IF more THEN endCursor ELSE <<>>,
              !.pc = IF more THEN "paging" ELSE "returned"]
    /\ UNCHANGED <<programs, scrape_logs, clock, call, run, returned, sched,
                   sent, objs, scheduler, bg, conn>>

\* hackerone.py lines 81-83: the response holds 'errors'; break
H1GraphQLErrors ==
    /\ adapter.pc = "paging"
    /\ adapter' = [adapter EXCEPT !.pc = "returned", !.cursor = <<>>]
    /\ UNCHANGED <<programs, scrape_logs, clock, call, run, returned, sched,
                   sent, objs, scheduler, bg, conn>>

\* hackerone.py lines 73-79 raise (HTTP error, timeout, body that is not
\* JSON); lines 106-108 log the exception and break
H1PageFails ==
    /\ adapter.pc = "paging"
    /\ adapter' = [adapter EXCEPT !.pc = "returned", !.failed = TRUE,
                                  !.cursor = <<>>]
    /\ UNCHANGED <<programs, scrape_logs, clock, call, run, returned, sched,
                   sent, objs, scheduler, bg, conn>>

\* projectdiscovery.py lines 36-51: the list arrives and its entries are
\* parsed one by one; an exception of _parse_program passes to lines 49-51,
\* which return []
PDFetch(list) ==
    /\ adapter.pc = "fetching"
    /\ Fetched + Len(list) <= MaxUpserts
    /\ LET outs == [i \in DOMAIN list |-> PDParseProgram(list[i])]
       IN  adapter' = [adapter EXCEPT
              !.pc = "returned",
              !.raw = list,
              !.programs = IF FirstRaising(outs) = 0 THEN ProgramsOf(outs)
                           ELSE <<>>]
    /\ UNCHANGED <<programs, scrape_logs, clock, call, run, returned, sched,
                   sent, objs, scheduler, bg, conn>>

\* projectdiscovery.py line 36 raises; lines 49-51 log it and return []
PDFetchFails ==
    /\ adapter.pc = "fetching"
    /\ adapter' = [adapter EXCEPT !.pc = "returned", !.programs = <<>>,
                                  !.failed = TRUE]
    /\ UNCHANGED <<programs, scrape_logs, clock, call, run, returned, sched,
                   sent, objs, scheduler, bg, conn>>

\* the return statement of scrape_programs, back in run() at line 54
AdapterReturns ==
    /\ adapter.pc = "returned"
    /\ adapter.run = ThisRun
    /\ ~adapter.truncated
    /\ ScrapeReturns(Main, adapter.programs)

\* the edges of the directory in a run of the model: a paid program, an
\* edge whose base_bounty is not a number, a program without bounties
PageEdges ==
    {[node |-> <<Node("a", <<"A">>, <<JBool(TRUE)>>, <<JNum(100)>>, <<"open">>)>>],
     [node |-> <<Node("b", <<"B">>, <<JBool(TRUE)>>, <<JStr(<<"n", "/", "a">>)>>,
                      <<"open">>)>>],
     [node |-> <<Node("b", <<>>, <<JBool(FALSE)>>, <<>>, <<"open">>)>>]}

\* the entries of the list in a run of the model: a HackerOne program without
\* bounty information, a Bugcrowd program with 21 domains, an entry whose
\* bounty is a boolean
PageItems ==
    {Item(<<"https://hackerone.com/A">>, "A", <<>>, <<JList(DomainList(2))>>),
     Item(<<"https://bugcrowd.com/b">>, "b", <<JStr(<<"n", "o">>)>>,
          <<JList(DomainList(21))>>),
     Item(<<"https://bugcrowd.com/b">>, "b", <<JBool(TRUE)>>, <<>>)}

\* the endCursor of a page: none, or a cursor
Cursors == {<<>>, <<"c1">>}

NextAdapter ==
    \/ \E kind \in Adapters : RunStart(Main, kind)
    \/ \E kind \in Adapters : CallScrapePrograms(kind)
    \/ \E edges \in ListsUpTo(PageEdges, MaxPageLen), hasNextPage \in BOOLEAN,
           endCursor \in Cursors :
          H1Page(edges, hasNextPage, endCursor)
    \/ H1GraphQLErrors
    \/ H1PageFails
    \/ \E list \in ListsUpTo(PageItems, MaxPageLen) : PDFetch(list)
    \/ PDFetchFails
    \/ AdapterReturns
    \/ UpsertNext(Main)
    \/ LoopEnd(Main)
    \/ LogScrape(Main)
    \/ RunReturns(Main)

SpecAdapter == Init /\ [][NextAdapter]_vars

\* the one edge the directory serves in SpecPaging
PagingEdges ==
    {[node |-> <<Node("a", <<"A">>, <<JBool(TRUE)>>, <<JNum(100)>>, <<"open">>)>>]}

\* runs of the HackerOne adapter alone
NextPaging ==
    \/ RunStart(Main, "hackerone")
    \/ CallScrapePrograms("hackerone")
    \/ \E edges \in ListsUpTo(PagingEdges, 1), hasNextPage \in BOOLEAN,
           endCursor \in Cursors :
          H1Page(edges, hasNextPage, endCursor)
    \/ H1GraphQLErrors
    \/ H1PageFails
    \/ AdapterReturns
    \/ UpsertNext(Main)
    \/ LoopEnd(Main)
    \/ LogScrape(Main)
    \/ RunReturns(Main)

\* SpecPaging: the thread of the run keeps being scheduled and the server
\* keeps answering
SpecPaging == Init /\ [][NextPaging]_vars /\ WF_vars(NextPaging)

\* C20: a scrape_programs call in which a request failed does not return a
\* list, and the run that made the call is logged with success = FALSE.
C20_TransportFailureFailsRun ==
    /\ adapter.pc = "returned" => ~adapter.failed
    /\ (adapter.failed /\ adapter.run = Len(scrape_logs))
          => ~scrape_logs[adapter.run].success

\* _parse_program of the adapter that was called, for one delivered entry
ParseOf(kind, entry) ==
    IF kind = "hackerone" THEN H1ParseEdge(entry) ELSE PDParseProgram(entry)

\* C21: a scrape_programs call whose requests all succeeded returns the
\* Programs of all well-formed entries the source delivered, in order: an
\* entry whose normalization raises is skipped alone.
C21_ParseFailureIsolated ==
    (adapter.pc = "returned" /\ ~adapter.failed /\ ~adapter.truncated)
       => adapter.programs
             = ProgramsOf([i \in DOMAIN adapter.raw |->
                              ParseOf(adapter.kind, adapter.raw[i])])

\* C30: every call of HackerOneScraper.scrape_programs that has entered its
\* while loop reaches its return statement, whatever the server answers.
C30_FetchTerminates == (adapter.pc = "paging") ~> (adapter.pc = "returned")

\* get_platform_name() of the adapter registered under kind
PlatformName(kind) ==
    IF kind = "hackerone" THEN HackerOneName ELSE ProjectDiscoveryName

\* C29: a row that a step of a run inserts or changes has the platform name
\* of the adapter of that run.
C29_SourceIsolation ==
    [][\A r \in programs' :
          r \notin programs => r.platform = PlatformName(run[Main].log.platform)]_vars

----------------------------------------------------------------------------
(* SpecIdentity: constructions of Program objects *)

ObjFields ==
    {[BaseFields(slug) EXCEPT !.platform = platform] :
        platform \in {<<"x">>, <<"X">>}, slug \in {<<"a">>, <<"A">>, <<"b">>}}

\* Program(id=id, platform=..., slug=..., ...)
NewProgram(id, f) ==
    /\ Len(objs) < MaxObjs
    /\ objs' = Append(objs, [given |-> id, obj |-> Program(id, f)])
    /\ UNCHANGED <<programs, scrape_logs, clock, call, run, returned, sched, sent, otherVars>>

NextIdentity ==
    \E id \in {<<>>, <<"k">>}, f \in ObjFields : NewProgram(id, f)

SpecIdentity == Init /\ [][NextIdentity]_vars

SameUpToCase(o1, o2) ==
    Lower(o1.platform) = Lower(o2.platform) /\ Lower(o1.slug) = Lower(o2.slug)

\* C6 as claimed: any two Program objects whose platform and slug are equal up
\* to letter case have the same id, and no object's id differs from the
\* identity of its (platform, slug).
C6_IdentityStable ==
    /\ \A i, j \in 1..Len(objs) :
          SameUpToCase(objs[i].obj, objs[j].obj) => objs[i].obj.id = objs[j].obj.id
    /\ \A i \in 1..Len(objs) :
          objs[i].obj.id = Identity(objs[i].obj.platform, objs[i].obj.slug)

\* C6 as amended: any two Program objects constructed with an empty id whose
\* platform and slug are equal up to letter case have the same id, the
\* identity of their (platform, slug); an object constructed with a non-empty
\* id keeps that id.
C6_IdentityStableWhenDerived ==
    /\ \A i, j \in 1..Len(objs) :
          (/\ objs[i].given = <<>> /\ objs[j].given = <<>>
           /\ SameUpToCase(objs[i].obj, objs[j].obj))
              => objs[i].obj.id = objs[j].obj.id
    /\ \A i, j \in 1..Len(objs) :
          (/\ objs[i].given = <<>> /\ objs[j].given = <<>>
           /\ ~SameUpToCase(objs[i].obj, objs[j].obj))
              => objs[i].obj.id /= objs[j].obj.id
    /\ \A i \in 1..Len(objs) :
          objs[i].given /= <<>> => objs[i].obj.id = objs[i].given

\* two objects constructed with an empty id, spelled in different letter case,
\* have one id
C6_Witness ==
    /\ Len(objs) = 2
    /\ objs[1].given = <<>> /\ objs[2].given = <<>>
    /\ objs[1].obj.slug /= objs[2].obj.slug
    /\ objs[1].obj.platform /= objs[2].obj.platform
    /\ SameUpToCase(objs[1].obj, objs[2].obj)
    /\ objs[1].obj.id = objs[2].obj.id

====
